---- MODULE Spec2Model ----
(***************************************************************************)
(* The question-answering driver loop of zjcai-solver: QuizSolver.run and  *)
(* go_next_question of main.py, quiz_solver.py and quiz_solver_mc_fill.py, *)
(* and main / go_next_and_check_last of quiz_solver_code.py, run against a *)
(* page that re-renders asynchronously and may show a modal dialog (Spec,  *)
(* CoopSpec); set_editor_content step by step (InjSpec); and the text      *)
(* helpers parse_option_label, split_fill_answer and fill_blanks applied   *)
(* to bounded inputs (FnSpec).                                             *)
(***************************************************************************)
EXTENDS Naturals, Sequences, FiniteSets

VARIABLES
    variant,      \* which script is running
    nQuestions,   \* page: number of questions of the quiz
    cursor,       \* page: the server-side question cursor
    domEl,        \* page: identity of the question element now in the DOM
    domQ,         \* page: index of the question that element shows
    domType,      \* page: its raw data-type attribute
    pendRender,   \* page: a re-render has been requested and not yet done
    pendDialog,   \* page: a dialog has been requested and is not yet open
    dialog,       \* page: the modal dialog now open ("none" when there is none)
    pc,           \* driver: position in the loop
    count,        \* driver: run's question counter
    q_el,         \* driver: element handle kept for the staleness wait (0 is None)
    q,            \* driver: the QuestionSnapshot of this iteration
    is_last,      \* driver: go_next_question's local flag
    llm_answer,   \* driver: what the answer backend returned
    excSite,      \* history: operation that raised last in this iteration
    log,          \* history: kinds of log records written in this iteration
    calls,        \* history: operations invoked in this iteration, in order
    clicks,       \* history: clicks on the next control in this iteration
    capLog,       \* history: what each iteration captured
    advances,     \* history: invocations of go_next_question in the run
    alertText,    \* history: text of the dialog the alert wait found ("none")
    accepted,     \* history: that dialog was accepted
    staleTimedOut, \* history: the staleness wait of this advance timed out
    upstream,     \* history: what the text service did in this iteration
    boot,         \* startup: configuration, link, browser session, diagnostic
    injPc,        \* injector: position in set_editor_content
    ctx,          \* injector: the driver's browsing context ("default" or "frame")
    attempts,     \* injector: backend attempts of this call, in order
    wrote,        \* injector: backend kinds whose content this call has set
    injRet,       \* injector: <<b>> once the call has returned b
    injCalls,     \* injector: calls made so far
    fnName,       \* helper under evaluation ("none" in the driver loop)
    fnIn,         \* helper: its argument
    fnOut         \* helper: <<r>> once it has returned r

pageVars == <<nQuestions, cursor, domEl, domQ, domType, pendRender, pendDialog>>
advVars == <<alertText, accepted, staleTimedOut>>
injVars == <<injPc, ctx, attempts, wrote, injRet, injCalls>>
fnVars == <<fnName, fnIn, fnOut>>
loopVars == <<variant, nQuestions, cursor, domEl, domQ, domType, pendRender,
              pendDialog, dialog, pc, count, q_el, q, is_last, llm_answer,
              excSite, log, calls, clicks, capLog, advances, alertText,
              accepted, staleTimedOut, upstream, boot>>
vars == <<loopVars, injVars, fnVars>>

(* Bounds of the model. *)
MaxQuestions == 2
MaxIter == 3

Variants == {"main", "solver", "mc_fill", "code"}

(***************************************************************************)
(* Type tags are character sequences, so that the substring tests of run   *)
(* are computed and not assumed.                                           *)
(***************************************************************************)
T_SINGLE == <<"S", "I", "N", "G", "L", "E">>
T_JUDGE == <<"J", "U", "D", "G", "E">>
T_FILL == <<"F", "I", "L", "L">>
T_PROGRAM == <<"P", "R", "O", "G", "R", "A", "M">>
T_SQL == <<"S", "Q", "L">>
T_DESIGN == <<"D", "E", "S", "I", "G", "N">>
T_CORRECT == <<"C", "O", "R", "R", "E", "C", "T">>
T_DB_SQL == <<"D", "B", "_", "S", "Q", "L">>
CodeTags == {T_PROGRAM, T_SQL, T_DESIGN, T_CORRECT, T_DB_SQL}

SINGLE_CHIOCE == <<"S", "I", "N", "G", "L", "E", "_", "C", "H", "I", "O", "C", "E">>
FILL_BLANK == <<"F", "I", "L", "L", "_", "B", "L", "A", "N", "K">>
PROGRAM_FILL_BLANK == <<"P", "R", "O", "G", "R", "A", "M", "_", "F", "I", "L", "L", "_", "B", "L", "A", "N", "K">>
PROGRAM_DESIGN == <<"P", "R", "O", "G", "R", "A", "M", "_", "D", "E", "S", "I", "G", "N">>
ESSAY_FREEFORM == <<"E", "S", "S", "A", "Y", "_", "F", "R", "E", "E", "F", "O", "R", "M">>
judge_padded == <<" ", "j", "u", "d", "g", "e", " ">>

(* The data-type attribute values the page may carry. *)
RawTypes == {SINGLE_CHIOCE, judge_padded, FILL_BLANK, PROGRAM_FILL_BLANK,
             PROGRAM_DESIGN, T_DB_SQL, ESSAY_FREEFORM, <<>>}

LowerChars == <<"a", "b", "c", "d", "e", "f", "g", "h", "i", "j", "k", "l", "m", "n", "o", "p", "q", "r", "s", "t", "u", "v", "w", "x", "y", "z">>
UpperChars == <<"A", "B", "C", "D", "E", "F", "G", "H", "I", "J", "K", "L", "M", "N", "O", "P", "Q", "R", "S", "T", "U", "V", "W", "X", "Y", "Z">>

UpperChar(c) ==
    IF \E i \in 1..Len(LowerChars) : LowerChars[i] = c
    THEN UpperChars[CHOOSE i \in 1..Len(LowerChars) : LowerChars[i] = c]
    ELSE c

Upper(s) == [i \in 1..Len(s) |-> UpperChar(s[i])]

RECURSIVE Strip(_)
Strip(s) ==
    IF s = <<>> THEN s
    ELSE IF Head(s) = " " THEN Strip(Tail(s))
    ELSE IF s[Len(s)] = " " THEN Strip(SubSeq(s, 1, Len(s) - 1))
    ELSE s

(* qtype of collect_current_question: the attribute, uppercased and stripped. *)
QType(raw) == Strip(Upper(raw))

(* Python's `t in s` on strings. *)
Contains(s, t) ==
    Len(t) <= Len(s) /\
    \E i \in 0..(Len(s) - Len(t)) : \A k \in 1..Len(t) : s[i + k] = t[k]

(* Variation of Branch: every tag that is neither choice nor fill is      *)
(* answered as a code question.                                            *)
Branch_DefaultCode(v, qtype) ==
    IF v = "code" THEN "CODE"
    ELSE IF Contains(qtype, T_SINGLE) \/ Contains(qtype, T_JUDGE) THEN "CHOICE"
    ELSE IF Contains(qtype, T_FILL) THEN "FILL"
    ELSE "CODE"

(* Variation of Branch: the code tags are tested before the fill tag. *)
Branch_CodeBeforeFill(v, qtype) ==
    IF v = "code" THEN "CODE"
    ELSE IF Contains(qtype, T_SINGLE) \/ Contains(qtype, T_JUDGE) THEN "CHOICE"
    ELSE IF v = "main" /\ \E t \in CodeTags : Contains(qtype, t) THEN "CODE"
    ELSE IF Contains(qtype, T_FILL) THEN "FILL"
    ELSE IF v = "solver" THEN "CODE"
    ELSE "UNKNOWN"

(* Variation of Branch: quiz_solver.py skips the tags it does not know,    *)
(* as main.py does.                                                        *)
Branch_SolverSkips(v, qtype) ==
    IF v = "code" THEN "CODE"
    ELSE IF Contains(qtype, T_SINGLE) \/ Contains(qtype, T_JUDGE) THEN "CHOICE"
    ELSE IF Contains(qtype, T_FILL) THEN "FILL"
    ELSE IF v = "mc_fill" THEN "UNKNOWN"
    ELSE IF \E t \in CodeTags : Contains(qtype, t) THEN "CODE"
    ELSE "UNKNOWN"

(* The strategy branch run takes for a type tag. *)
Branch(v, qtype) ==
    IF v = "code" THEN "CODE"
    ELSE IF Contains(qtype, T_SINGLE) \/ Contains(qtype, T_JUDGE) THEN "CHOICE"
    ELSE IF Contains(qtype, T_FILL) THEN "FILL"
    ELSE IF v = "solver" THEN "CODE"
    ELSE IF v = "mc_fill" THEN "UNKNOWN"
    ELSE IF \E t \in CodeTags : Contains(qtype, t) THEN "CODE"
    ELSE "UNKNOWN"

(***************************************************************************)
(* Exception handling of the loop.                                         *)
(***************************************************************************)
(* The operations that run inside the try block of the loop body. *)
TrySites(v) ==
    IF v = "code" THEN {"ask"}
    ELSE {"classify", "ask", "click_single_choice", "fill_blanks",
          "get_question_text_for_code", "ensure_editor_present",
          "set_editor_content", "try_click_save"}

(* Variation of OnException: the loop body has no try block. *)
OnException_Uncaught(v, site) == "failed"

(* Variation of OnException: the try block spans the whole loop body,      *)
(* navigation included.                                                    *)
OnException_CatchAll(v, site) == IF v = "code" THEN "set_editor" ELSE "next_click"

(* Variation of OnException: the except clause asks the backend again. *)
OnException_Retry(v, site) == IF site \in TrySites(v) THEN "ask" ELSE "failed"

(* Where the loop continues when `site` raises: the except clause of the   *)
(* loop body when the site is inside its try block, out of the run if not. *)
OnException(v, site) ==
    IF site \in TrySites(v)
    THEN (IF v = "code" THEN "set_editor" ELSE "next_click")
    ELSE "failed"

(* go_next_question: the order of its two waits after the click. *)
AfterClick(v) == IF v = "mc_fill" THEN "stale_wait" ELSE "alert_wait"
AfterAlert(v) == IF v = "mc_fill" THEN "ret" ELSE "stale_wait"
AfterStale(v) == IF v = "mc_fill" THEN "alert_wait" ELSE "ret"

(* Variation of OnStaleTimeout: the staleness wait has no try block. *)
OnStaleTimeout_Fatal(v) == "failed"

(* go_next_question: a TimeoutException of the staleness wait. *)
OnStaleTimeout(v) == IF v = "mc_fill" THEN "failed" ELSE AfterStale(v)

(* Variation of OnEditorTimeout: the wait for the editor has no try block. *)
OnEditorTimeout_Fatal(v) == OnException(v, "ensure_editor_present")

(* ensure_editor_present: the except clause of its wait logs the           *)
(* TimeoutException and the function returns; the caller goes on to the    *)
(* backend request.                                                        *)
OnEditorTimeout(v) == "ask"

(* Variation of HasSentinel: any dialog counts as the last-question one. *)
HasSentinel_AnyDialog(msg) == msg # "none"

(* go_next_question: "最后一题" in msg. *)
HasSentinel(msg) == msg = "last"

(* Variation of AfterAdvance: the loop never breaks. *)
AfterAdvance_NoBreak(last) == "capture_el"

(* run: after go_next_question returned is_last. *)
AfterAdvance(last) == IF last THEN "done" ELSE "capture_el"

NoSnapshot == [el |-> 0, idx |-> 0, qtype |-> <<>>, faceEl |-> 0, labelsEl |-> 0]

(* main has read a complete configuration and a link, opened the browser   *)
(* session and logged in.                                                  *)
Booted ==
    [cfg |-> [username |-> "x", password |-> "x", deepseek_api_key |-> "x"],
     url |-> [read |-> TRUE, text |-> <<"u">>],
     session |-> "open",
     loggedIn |-> TRUE,
     diag |-> "none",
     quits |-> 0]

(* No call of set_editor_content is being followed step by step. *)
InjIdle ==
    /\ injPc = "idle"
    /\ ctx = "default"
    /\ attempts = <<>>
    /\ wrote = {}
    /\ injRet = <<>>
    /\ injCalls = 0

(* No helper function is under evaluation. *)
FnIdle ==
    /\ fnName = "none"
    /\ fnIn = <<>>
    /\ fnOut = <<>>

Init ==
    /\ variant \in Variants
    /\ nQuestions \in 1..MaxQuestions
    /\ cursor = 1
    /\ domEl = 1
    /\ domQ = 1
    /\ domType \in RawTypes
    /\ pendRender = FALSE
    /\ pendDialog = "none"
    /\ dialog = "none"
    /\ pc = "capture_el"
    /\ count = 1
    /\ q_el = 0
    /\ q = NoSnapshot
    /\ is_last = FALSE
    /\ llm_answer = "none"
    /\ excSite = "none"
    /\ log = {}
    /\ calls = <<>>
    /\ clicks = 0
    /\ capLog = <<>>
    /\ advances = 0
    /\ alertText = "none"
    /\ accepted = FALSE
    /\ staleTimedOut = FALSE
    /\ upstream = "none"
    /\ boot = Booted
    /\ InjIdle
    /\ FnIdle

(***************************************************************************)
(* The page.                                                               *)
(***************************************************************************)
(* The page opens a dialog it has requested. *)
PageShowDialog ==
    /\ pendDialog # "none"
    /\ dialog = "none"
    /\ dialog' = pendDialog
    /\ pendDialog' = "none"
    /\ UNCHANGED <<boot, injVars, fnVars, upstream, variant, nQuestions, cursor, domEl, domQ, domType, pendRender,
                   pc, count, q_el, q, is_last, llm_answer, excSite, log, calls,
                   clicks, capLog, advances, alertText, accepted, staleTimedOut>>

(* The page replaces the question element by the one of the cursor's question. *)
PageRender ==
    /\ pendRender
    /\ dialog = "none"
    /\ domEl' = domEl + 1
    /\ domQ' = cursor
    /\ domType' \in RawTypes
    /\ pendRender' = FALSE
    /\ UNCHANGED <<boot, injVars, fnVars, upstream, variant, nQuestions, cursor, pendDialog, dialog,
                   pc, count, q_el, q, is_last, llm_answer, excSite, log, calls,
                   clicks, capLog, advances, alertText, accepted, staleTimedOut>>

(* What a click on the next control does to the page: on the last question *)
(* the "last question" dialog is requested, otherwise the cursor advances,  *)
(* a re-render is requested and, possibly, another dialog.                 *)
PageOnNextClick(other) ==
    IF cursor < nQuestions
    THEN /\ cursor' = cursor + 1
         /\ pendRender' = TRUE
         /\ pendDialog' = IF other /\ pendDialog = "none" THEN "other" ELSE pendDialog
    ELSE /\ cursor' = cursor
         /\ pendRender' = pendRender
         /\ pendDialog' = "last"

(***************************************************************************)
(* The driver.                                                             *)
(***************************************************************************)
(* An operation raises: the exception goes to the handler of the loop. *)
Raise(site) ==
    /\ excSite' = site
    /\ pc' = OnException(variant, site)
    /\ log' = IF OnException(variant, site) = "failed" THEN log
              ELSE log \cup {"exception"}

(* A WebDriver command sent while a dialog is open fails with              *)
(* UnexpectedAlertPresentException, and the driver dismisses the dialog.   *)
Blocked == dialog # "none"


(* A WebDriver operation of the loop body: it is recorded, and it either   *)
(* completes and the loop goes on at okPc, or it raises.                   *)
Op(site, ok, okPc, okLog) ==
    /\ calls' = Append(calls, site)
    /\ dialog' = "none"
    /\ IF Blocked \/ ~ok
       THEN Raise(site)
       ELSE /\ pc' = okPc
            /\ excSite' = excSite
            /\ log' = okLog

(* run, top of the loop body: q_el = self.wait_for_question_item(); in     *)
(* quiz_solver_code.main the presence wait and faces[0] (None when the     *)
(* list came back empty).                                                  *)
wait_for_question_item(outcome) ==
    /\ pc = "capture_el"
    /\ outcome = "empty" => variant = "code" /\ pendRender
    /\ calls' = <<"wait_for_question_item">>
    /\ dialog' = "none"
    /\ IF Blocked \/ outcome = "timeout"
       THEN /\ excSite' = "wait_for_question_item"
            /\ pc' = OnException(variant, "wait_for_question_item")
            /\ q_el' = 0
       ELSE /\ excSite' = "none"
            /\ pc' = IF variant = "code" THEN "code_prompt" ELSE "collect_item"
            /\ q_el' = IF outcome = "empty" THEN 0 ELSE domEl
    /\ log' = {}
    /\ clicks' = 0
    /\ q' = NoSnapshot
    /\ is_last' = FALSE
    /\ llm_answer' = "none"
    /\ upstream' = "none"
    /\ alertText' = "none"
    /\ accepted' = FALSE
    /\ staleTimedOut' = FALSE
    /\ UNCHANGED <<boot, injVars, fnVars, variant, pageVars, count, capLog, advances>>

(* collect_current_question: its own wait for the question container and   *)
(* the id and data-type attributes read from it.                           *)
collect_item(found) ==
    /\ pc = "collect_item"
    /\ Op("collect_current_question", found, "collect_face", log)
    /\ IF Blocked \/ ~found
       THEN UNCHANGED <<q, capLog>>
       ELSE /\ q' = [q EXCEPT !.el = domEl, !.idx = domQ, !.qtype = QType(domType)]
            /\ capLog' = Append(capLog, [idx |-> domQ, el |-> domEl])
    /\ UNCHANGED <<boot, injVars, fnVars, upstream, variant, pageVars, count, q_el, is_last, llm_answer, clicks,
                   advances, advVars>>

(* collect_current_question: the wait for the question face and its text. *)
collect_face(found) ==
    /\ pc = "collect_face"
    /\ Op("collect_current_question", found, "collect_labels", log)
    /\ q' = IF Blocked \/ ~found THEN q ELSE [q EXCEPT !.faceEl = domEl]
    /\ UNCHANGED <<boot, injVars, fnVars, upstream, variant, pageVars, count, q_el, is_last, llm_answer, clicks,
                   capLog, advances, advVars>>

(* collect_current_question: the option labels, and the snapshot returned. *)
collect_labels ==
    /\ pc = "collect_labels"
    /\ Op("collect_current_question", TRUE, "classify", log)
    /\ q' = IF Blocked THEN q ELSE [q EXCEPT !.labelsEl = domEl]
    /\ UNCHANGED <<boot, injVars, fnVars, upstream, variant, pageVars, count, q_el, is_last, llm_answer, clicks,
                   capLog, advances, advVars>>

(* run: the if / elif chain over q.qtype. *)
classify ==
    /\ pc = "classify"
    /\ calls' = Append(calls, "classify")
    /\ pc' = CASE Branch(variant, q.qtype) = "CHOICE" -> "ask"
               [] Branch(variant, q.qtype) = "FILL" -> "ask"
               [] Branch(variant, q.qtype) = "CODE" -> "code_prompt"
               [] OTHER -> "next_click"
    /\ log' = IF Branch(variant, q.qtype) = "UNKNOWN" THEN log \cup {"skip"} ELSE log
    /\ UNCHANGED <<boot, injVars, fnVars, upstream, variant, pageVars, dialog, count, q_el, q, is_last, llm_answer,
                   excSite, clicks, capLog, advances, advVars>>

(* The branch of the question being answered. *)
CurBranch == IF variant = "code" THEN "CODE" ELSE Branch(variant, q.qtype)

(* What the text service can do with a request: answer with text, answer  *)
(* with null content, or fail the request.                                 *)
Upstreams == {"text", "null", "error"}

(* Variation of AskResult: a failed request is swallowed and the empty     *)
(* string returned.                                                        *)
AskResult_Swallow(v, up) == IF up = "text" THEN "text" ELSE "empty"

(* Variation of AskResult: quiz_solver_code passes null content on.        *)
AskResult_NullPassed(v, up) ==
    CASE up = "error" -> "raise"
      [] up = "null" -> IF v = "code" THEN "text" ELSE "empty"
      [] OTHER -> "text"

(* DeepSeekClient.ask, and the request of quiz_solver_code.main: the       *)
(* request's exception is not handled there, null content becomes the      *)
(* empty string (in quiz_solver_code it raises), the content is stripped.  *)
AskResult(v, up) ==
    CASE up = "error" -> "raise"
      [] up = "null" -> IF v = "code" THEN "raise" ELSE "empty"
      [] OTHER -> "text"

(* self.llm.ask(system_prompt, ...); in quiz_solver_code.main the request  *)
(* inside its own try, whose handler substitutes the empty answer.         *)
ask(up) ==
    /\ pc = "ask"
    /\ calls' = Append(calls, "ask")
    /\ upstream' = up
    /\ IF AskResult(variant, up) = "raise"
       THEN /\ Raise("ask")
            /\ llm_answer' = IF variant = "code" THEN "empty" ELSE llm_answer
       ELSE /\ pc' = CASE CurBranch = "CHOICE" -> "click_choice"
                       [] CurBranch = "FILL" -> "fill"
                       [] OTHER -> "set_editor"
            /\ llm_answer' = AskResult(variant, up)
            /\ UNCHANGED <<excSite, log>>
    /\ UNCHANGED <<boot, injVars, fnVars, variant, pageVars, dialog, count, q_el, q, is_last, clicks,
                   capLog, advances, advVars>>

(* click_single_choice(letter). *)
click_single_choice(ok) ==
    /\ pc = "click_choice"
    /\ Op("click_single_choice", ok, "next_click", log)
    /\ UNCHANGED <<boot, injVars, fnVars, upstream, variant, pageVars, count, q_el, q, is_last, llm_answer, clicks,
                   capLog, advances, advVars>>

(* snapshot_fill_blanks() and fill_blanks(llm_answer). *)
fill_blanks(ok) ==
    /\ pc = "fill"
    /\ Op("fill_blanks", ok, "next_click", log)
    /\ UNCHANGED <<boot, injVars, fnVars, upstream, variant, pageVars, count, q_el, q, is_last, llm_answer, clicks,
                   capLog, advances, advVars>>

(* get_question_text_for_code(); get_question_text in quiz_solver_code. *)
get_question_text_for_code(ok) ==
    /\ pc = "code_prompt"
    /\ Op("get_question_text_for_code", ok, "ensure_editor", log)
    /\ capLog' = IF variant = "code" /\ ~Blocked /\ ok
                 THEN Append(capLog, [idx |-> domQ, el |-> domEl])
                 ELSE capLog
    /\ UNCHANGED <<boot, injVars, fnVars, upstream, variant, pageVars, count, q_el, q, is_last, llm_answer, clicks,
                   advances, advVars>>

(* ensure_editor_present(): its TimeoutException is logged and dropped. *)
ensure_editor_present(present) ==
    /\ pc = "ensure_editor"
    /\ calls' = Append(calls, "ensure_editor_present")
    /\ dialog' = "none"
    /\ IF Blocked
       THEN Raise("ensure_editor_present")
       ELSE IF present
       THEN /\ pc' = "ask"
            /\ UNCHANGED <<excSite, log>>
       ELSE /\ pc' = OnEditorTimeout(variant)
            /\ excSite' = IF OnEditorTimeout(variant) = "ask" THEN excSite
                          ELSE "ensure_editor_present"
            /\ log' = log \cup {"no_editor"}
    /\ UNCHANGED <<boot, injVars, fnVars, upstream, variant, pageVars, count, q_el, q, is_last, llm_answer, clicks,
                   capLog, advances, advVars>>

(* Variation of AfterInject: a failed injection skips the save attempt. *)
AfterInject_SaveOnlyWritten(ok) == IF ok THEN "save" ELSE "next_click"

(* run: the statement after `ok = self.set_editor_content(...)` and its    *)
(* warning is try_click_save(), whatever ok is.                            *)
AfterInject(ok) == "save"

(* set_editor_content(llm_answer): every backend attempt swallows its own  *)
(* exceptions, so the call returns a boolean; False is logged as a warning.*)
set_editor_content(written) ==
    /\ pc = "set_editor"
    /\ calls' = Append(calls, "set_editor_content")
    /\ dialog' = "none"
    /\ pc' = AfterInject(written /\ ~Blocked)
    /\ log' = IF written /\ ~Blocked THEN log ELSE log \cup {"not_written"}
    /\ UNCHANGED <<boot, injVars, fnVars, upstream, variant, pageVars, count, q_el, q, is_last, llm_answer, excSite,
                   clicks, capLog, advances, advVars>>

(* try_click_save(): swallows every exception. *)
try_click_save ==
    /\ pc = "save"
    /\ calls' = Append(calls, "try_click_save")
    /\ dialog' = "none"
    /\ pc' = "next_click"
    /\ UNCHANGED <<boot, injVars, fnVars, upstream, variant, pageVars, count, q_el, q, is_last, llm_answer, excSite,
                   log, clicks, capLog, advances, advVars>>

(* go_next_question: the wait for the next control and the click. *)
go_next_click(clickable, other) ==
    /\ pc = "next_click"
    /\ advances < MaxIter
    /\ calls' = Append(calls, "go_next_question")
    /\ advances' = advances + 1
    /\ dialog' = "none"
    /\ is_last' = FALSE
    /\ alertText' = "none"
    /\ accepted' = FALSE
    /\ staleTimedOut' = FALSE
    /\ IF Blocked \/ ~clickable
       THEN /\ Raise("go_next_question")
            /\ UNCHANGED <<clicks, cursor, pendRender, pendDialog>>
       ELSE /\ pc' = AfterClick(variant)
            /\ clicks' = clicks + 1
            /\ PageOnNextClick(other)
            /\ UNCHANGED <<excSite, log>>
    /\ UNCHANGED <<boot, injVars, fnVars, upstream, variant, nQuestions, domEl, domQ, domType, count, q_el, q,
                   llm_answer, capLog>>

(* go_next_question: the short wait for a dialog; its text decides is_last *)
(* and the dialog is accepted.                                             *)
go_next_alert_found ==
    /\ pc = "alert_wait"
    /\ dialog # "none"
    /\ alertText' = dialog
    /\ is_last' = (is_last \/ HasSentinel(dialog))
    /\ dialog' = "none"
    /\ accepted' = TRUE
    /\ pc' = AfterAlert(variant)
    /\ UNCHANGED <<boot, injVars, fnVars, upstream, variant, pageVars, count, q_el, q, llm_answer, excSite, log,
                   calls, clicks, capLog, advances, staleTimedOut>>

(* go_next_question: no dialog within the short wait. *)
go_next_alert_timeout ==
    /\ pc = "alert_wait"
    /\ dialog = "none"
    /\ pc' = AfterAlert(variant)
    /\ UNCHANGED <<boot, injVars, fnVars, upstream, variant, pageVars, dialog, count, q_el, q, is_last, llm_answer,
                   excSite, log, calls, clicks, capLog, advances, advVars>>

(* go_next_question: the wait for the old element to become stale. In     *)
(* main.py and quiz_solver.py the wait is skipped for a None handle.      *)
go_next_stale ==
    /\ pc = "stale_wait"
    /\ dialog' = "none"
    /\ IF q_el = 0 /\ variant \in {"main", "solver"}
       THEN /\ pc' = AfterStale(variant)
            /\ UNCHANGED <<excSite, log, staleTimedOut>>
       ELSE IF Blocked \/ q_el = 0
       THEN /\ Raise("go_next_question")
            /\ UNCHANGED staleTimedOut
       ELSE IF q_el # domEl
       THEN /\ pc' = AfterStale(variant)
            /\ UNCHANGED <<excSite, log, staleTimedOut>>
       ELSE /\ staleTimedOut' = TRUE
            /\ pc' = OnStaleTimeout(variant)
            /\ excSite' = IF OnStaleTimeout(variant) = "failed"
                          THEN "go_next_question" ELSE excSite
            /\ log' = IF OnStaleTimeout(variant) = "failed" THEN log
                      ELSE log \cup {"stale_timeout"}
    /\ UNCHANGED <<boot, injVars, fnVars, upstream, variant, pageVars, count, q_el, q, is_last, llm_answer, calls,
                   clicks, capLog, advances, alertText, accepted>>

(* run: is_last = self.go_next_question(q_el); break on the last question, *)
(* otherwise count += 1 and the next iteration.                            *)
run_loop ==
    /\ pc = "ret"
    /\ pc' = AfterAdvance(is_last)
    /\ AfterAdvance(is_last) # "done" => count < MaxIter
    /\ count' = IF AfterAdvance(is_last) = "done" THEN count ELSE count + 1
    /\ log' = IF AfterAdvance(is_last) = "done" THEN log \cup {"last"} ELSE log
    /\ UNCHANGED <<boot, injVars, fnVars, upstream, variant, pageVars, dialog, q_el, q, is_last, llm_answer,
                   excSite, calls, clicks, capLog, advances, advVars>>

Next ==
    \/ PageShowDialog
    \/ PageRender
    \/ \E outcome \in {"found", "timeout", "empty"} : wait_for_question_item(outcome)
    \/ \E found \in BOOLEAN : collect_item(found)
    \/ \E found \in BOOLEAN : collect_face(found)
    \/ collect_labels
    \/ classify
    \/ \E up \in Upstreams : ask(up)
    \/ \E ok \in BOOLEAN : click_single_choice(ok)
    \/ \E ok \in BOOLEAN : fill_blanks(ok)
    \/ \E ok \in BOOLEAN : get_question_text_for_code(ok)
    \/ \E present \in BOOLEAN : ensure_editor_present(present)
    \/ \E written \in BOOLEAN : set_editor_content(written)
    \/ try_click_save
    \/ \E clickable \in BOOLEAN, other \in BOOLEAN : go_next_click(clickable, other)
    \/ go_next_alert_found
    \/ go_next_alert_timeout
    \/ go_next_stale
    \/ run_loop

Spec == Init /\ [][Next]_vars


(***************************************************************************)
(* The loop on a cooperative page: every capture finds its elements, the   *)
(* next control is clickable, no dialog other than the last-question one   *)
(* is shown, and that one opens within the short wait.                     *)
(***************************************************************************)
CoopNext ==
    \/ PageShowDialog
    \/ PageRender
    \/ wait_for_question_item("found")
    \/ collect_item(TRUE)
    \/ collect_face(TRUE)
    \/ collect_labels
    \/ classify
    \/ \E up \in Upstreams : ask(up)
    \/ \E ok \in BOOLEAN : click_single_choice(ok)
    \/ \E ok \in BOOLEAN : fill_blanks(ok)
    \/ get_question_text_for_code(TRUE)
    \/ \E present \in BOOLEAN : ensure_editor_present(present)
    \/ \E written \in BOOLEAN : set_editor_content(written)
    \/ try_click_save
    \/ go_next_click(TRUE, FALSE)
    \/ go_next_alert_found
    \/ (pendDialog = "none" /\ go_next_alert_timeout)
    \/ go_next_stale
    \/ run_loop

CoopSpec == Init /\ [][CoopNext]_vars /\ WF_vars(CoopNext)

(***************************************************************************)
(* set_editor_content, step by step (main.py 431-566; the copies in        *)
(* quiz_solver.py 272-407 and quiz_solver_code.py 106-229 have the same    *)
(* statements). Every backend attempt is one step, a code-editor frame two: *)
(* locating and entering the frame, and the script run inside it.          *)
(***************************************************************************)
MaxCalls == 2

(* The backend attempts in the order of the function body. *)
Backends == <<"tinymce", "monaco1", "monaco2", "monaco3", "textarea",
              "contenteditable">>

BackendKind(b) == IF b \in {"monaco1", "monaco2", "monaco3"} THEN "monaco" ELSE b

BackendIndex(b) == CHOOSE i \in 1..Len(Backends) : Backends[i] = b

(* The position inside the frame of a code-editor attempt. *)
InFrame(b) ==
    CASE b = "monaco1" -> "monaco1_in"
      [] b = "monaco2" -> "monaco2_in"
      [] b = "monaco3" -> "monaco3_in"

FramePositions == {"monaco1_in", "monaco2_in", "monaco3_in"}

(* The outcomes with which an attempt has set the content and said so. *)
Successes == {"updated", "applied", "ok", "primary", "fallback"}

(* Variation of AfterBackend: a successful attempt does not return. *)
AfterBackend_NoShortCircuit(b, ok) ==
    IF BackendIndex(b) < Len(Backends) THEN Backends[BackendIndex(b) + 1] ELSE "done"

(* `return True` after an attempt that succeeded, the next attempt or the  *)
(* final `return False` after one that did not.                            *)
AfterBackend(b, ok) ==
    IF ok THEN "done"
    ELSE IF BackendIndex(b) < Len(Backends) THEN Backends[BackendIndex(b) + 1]
    ELSE "done"

(* Variation of OnBackendError: the textarea attempt has no except clause. *)
OnBackendError_TextareaPropagates(b) == IF b = "textarea" THEN "raised" ELSE "swallowed"

(* The `except Exception` clause around every backend attempt. *)
OnBackendError(b) == "swallowed"

(* Variation of CtxAtFrameExit: the script in the frame has no finally     *)
(* clause, the except clause alone restores the context.                   *)
CtxAtFrameExit_NoFinally(outcome) == IF outcome = "raise" THEN "default" ELSE "frame"

(* _try_monaco_in_frame: `finally: switch_to.default_content()`, and the   *)
(* same call in its except clause.                                         *)
CtxAtFrameExit(outcome) == "default"

(* An attempt of backend b ended with outcome r, having raised or not. *)
EndAttempt(b, r, raised) ==
    /\ attempts' = Append(attempts, [b |-> b, r |-> r])
    /\ IF raised /\ OnBackendError(b) # "swallowed"
       THEN /\ injPc' = "raised"
            /\ injRet' = <<>>
       ELSE /\ injPc' = AfterBackend(b, r \in Successes)
            /\ injRet' = IF AfterBackend(b, r \in Successes) = "done"
                         THEN <<r \in Successes>> ELSE <<>>

(* A call of set_editor_content begins, in the context the driver is in. *)
inj_call ==
    /\ injPc \in {"idle", "done"}
    /\ injCalls < MaxCalls
    /\ injCalls' = injCalls + 1
    /\ injPc' = Backends[1]
    /\ attempts' = <<>>
    /\ wrote' = {}
    /\ injRet' = <<>>
    /\ UNCHANGED <<ctx, loopVars, fnVars>>

(* The TinyMCE script: for the editor of textarea.question-design-input,   *)
(* setContent, fire('change'), ok = true, inside a try whose catch drops   *)
(* the error; the script returns ok.                                       *)
try_tinymce(outcome) ==
    /\ injPc = "tinymce"
    /\ wrote' = IF outcome \in {"updated", "fire_threw"}
                THEN wrote \cup {"tinymce"} ELSE wrote
    /\ EndAttempt("tinymce", outcome, outcome = "raise")
    /\ UNCHANGED <<ctx, injCalls, loopVars, fnVars>>

(* _try_monaco_in_frame: the wait for the iframe and switch_to.frame.      *)
monaco_enter(b, outcome) ==
    /\ injPc = b
    /\ IF outcome = "found"
       THEN /\ injPc' = InFrame(b)
            /\ ctx' = "frame"
            /\ UNCHANGED <<attempts, injRet>>
       ELSE /\ EndAttempt(b, outcome, TRUE)
            /\ ctx' = "default"
    /\ UNCHANGED <<wrote, injCalls, loopVars, fnVars>>

(* _try_monaco_in_frame: the script inside the frame, and the way out.     *)
monaco_script(b, outcome) ==
    /\ injPc = InFrame(b)
    /\ wrote' = IF outcome = "applied" THEN wrote \cup {"monaco"} ELSE wrote
    /\ ctx' = CtxAtFrameExit(outcome)
    /\ EndAttempt(b, outcome, outcome = "raise")
    /\ UNCHANGED <<injCalls, loopVars, fnVars>>

(* The plain textarea: the wait for it and the script setting its value.   *)
try_textarea(outcome) ==
    /\ injPc = "textarea"
    /\ wrote' = IF outcome = "ok" THEN wrote \cup {"textarea"} ELSE wrote
    /\ EndAttempt("textarea", outcome, outcome # "ok")
    /\ UNCHANGED <<ctx, injCalls, loopVars, fnVars>>

(* The editable region: #question_content, else [contenteditable='true'],  *)
(* and the script setting its textContent.                                 *)
try_contenteditable(outcome) ==
    /\ injPc = "contenteditable"
    /\ wrote' = IF outcome \in {"primary", "fallback"}
                THEN wrote \cup {"contenteditable"} ELSE wrote
    /\ EndAttempt("contenteditable", outcome, outcome \in {"absent", "raise"})
    /\ UNCHANGED <<ctx, injCalls, loopVars, fnVars>>

MonacoBackends == {"monaco1", "monaco2", "monaco3"}

InjNext ==
    \/ inj_call
    \/ \E outcome \in {"updated", "fire_threw", "no_editor", "raise"} :
           try_tinymce(outcome)
    \/ \E b \in MonacoBackends, outcome \in {"found", "absent", "switch_raise"} :
           monaco_enter(b, outcome)
    \/ \E b \in MonacoBackends, outcome \in {"applied", "false", "raise"} :
           monaco_script(b, outcome)
    \/ \E outcome \in {"ok", "absent", "raise"} : try_textarea(outcome)
    \/ \E outcome \in {"primary", "fallback", "absent", "raise"} :
           try_contenteditable(outcome)

(* The driver loop stands at the call of set_editor_content. *)
InjInit ==
    /\ variant = "main"
    /\ nQuestions = 1
    /\ cursor = 1
    /\ domEl = 1
    /\ domQ = 1
    /\ domType = PROGRAM_DESIGN
    /\ pendRender = FALSE
    /\ pendDialog = "none"
    /\ dialog = "none"
    /\ pc = "set_editor"
    /\ count = 1
    /\ q_el = 1
    /\ q = [NoSnapshot EXCEPT !.el = 1, !.idx = 1, !.qtype = PROGRAM_DESIGN]
    /\ is_last = FALSE
    /\ llm_answer = "text"
    /\ excSite = "none"
    /\ log = {}
    /\ calls = <<>>
    /\ clicks = 0
    /\ capLog = <<>>
    /\ advances = 0
    /\ alertText = "none"
    /\ accepted = FALSE
    /\ staleTimedOut = FALSE
    /\ upstream = "text"
    /\ boot = Booted
    /\ InjIdle
    /\ FnIdle

InjSpec == InjInit /\ [][InjNext]_vars

(***************************************************************************)
(* The text helpers of main.py, applied to bounded character sequences.    *)
(* A character is a one-character string; the three non-ASCII characters   *)
(* the helpers treat specially are named by their code points.             *)
(***************************************************************************)
MaxLabelLen == 4

NL == "\n"
IdeoComma == "U+3001"
FullStop == "U+FF0E"
FullComma == "U+FF0C"

(* What \s and str.strip() take for whitespace, among the characters used. *)
WhiteSpace == {" ", NL}

RECURSIVE LStripWs(_)
LStripWs(s) ==
    IF s # <<>> /\ Head(s) \in WhiteSpace THEN LStripWs(Tail(s)) ELSE s

RECURSIVE RStripWs(_)
RStripWs(s) ==
    IF s # <<>> /\ s[Len(s)] \in WhiteSpace
    THEN RStripWs(SubSeq(s, 1, Len(s) - 1)) ELSE s

(* str.strip(). *)
PyStrip(s) == RStripWs(LStripWs(s))

(* The strings over a set of characters, up to a length. *)
Strings(chars, n) == UNION {[1..k -> chars] : k \in 0..n}

IsUpperLetter(c) == \E i \in 1..Len(UpperChars) : UpperChars[i] = c

(* The class [\.、．] of OPTION_LABEL_RE. *)
LabelSeparators == {".", IdeoComma, FullStop}

AllIn(s, from, to, set) == \A i \in from..to : s[i] \in set

(* A match of ^([A-Z])<lead>[\.、．]?\s*(rest)$ against t, where <lead> is *)
(* \s* or nothing and rest is `.` repeated: the candidates are the lengths <<a, sep, b>> of the      *)
(* whitespace run, the separator and the second whitespace run for which    *)
(* the rest has no line break (which `.` does not match); the regex engine  *)
(* takes the candidate that is greedy from left to right. The result is     *)
(* <<>> for no match, else <<[g1, g2]>>.                                    *)
MatchLabel(t, lead) ==
    LET n == Len(t)
        cands == {c \in (0..n) \X {0, 1} \X (0..n) :
                     /\ 1 + c[1] + c[2] + c[3] <= n
                     /\ lead \/ c[1] = 0
                     /\ AllIn(t, 2, 1 + c[1], WhiteSpace)
                     /\ c[2] = 1 => t[2 + c[1]] \in LabelSeparators
                     /\ AllIn(t, 2 + c[1] + c[2], 1 + c[1] + c[2] + c[3], WhiteSpace)
                     /\ AllIn(t, 2 + c[1] + c[2] + c[3], n, {x \in {t[i] : i \in 1..n} : x # NL})}
        before(c, d) == \/ c[1] > d[1]
                        \/ c[1] = d[1] /\ c[2] > d[2]
                        \/ c[1] = d[1] /\ c[2] = d[2] /\ c[3] >= d[3]
    IN IF n = 0 \/ ~IsUpperLetter(t[1]) \/ cands = {} THEN <<>>
       ELSE LET g == CHOOSE c \in cands : \A d \in cands : before(c, d)
            IN <<[g1 |-> t[1], g2 |-> SubSeq(t, 2 + g[1] + g[2] + g[3], n)]>>

(* OPTION_LABEL_RE.match(t). *)
OPTION_LABEL_RE(t) == MatchLabel(t, TRUE)

(* Variation of parse_option_label: the label is matched untrimmed. *)
parse_option_label_Untrimmed(raw) ==
    LET m == OPTION_LABEL_RE(raw)
    IN IF m # <<>> THEN [key |-> m[1].g1, text |-> PyStrip(m[1].g2)]
       ELSE [key |-> "", text |-> PyStrip(raw)]

(* parse_option_label(raw). *)
parse_option_label(raw) ==
    LET t == PyStrip(raw)
        m == OPTION_LABEL_RE(t)
    IN IF m # <<>> THEN [key |-> m[1].g1, text |-> PyStrip(m[1].g2)]
       ELSE [key |-> "", text |-> t]

(* The option labels given to parse_option_label. *)
Labels == Strings({"A", "x", ".", IdeoComma, " ", NL}, MaxLabelLen)

call_parse_option_label ==
    /\ fnName = "parse_option_label"
    /\ fnOut = <<>>
    /\ fnOut' = <<parse_option_label(fnIn)>>
    /\ UNCHANGED <<fnName, fnIn, loopVars, injVars>>

MaxAnswerLen == 4
MaxBlanks == 2

(* The class [|,，] of split_fill_answer. *)
FillDelims == {"|", ",", FullComma}

(* re.split(r"[|,，]", s): the pieces between the delimiters, empty ones    *)
(* included; cur is the piece being read.                                  *)
RECURSIVE ReSplit(_, _)
ReSplit(s, cur) ==
    IF s = <<>> THEN <<cur>>
    ELSE IF Head(s) \in FillDelims THEN <<cur>> \o ReSplit(Tail(s), <<>>)
    ELSE ReSplit(Tail(s), Append(cur, Head(s)))

(* Variation of split_fill_answer: empty parts are kept. *)
split_fill_answer_KeepEmpty(raw) ==
    LET pieces == ReSplit(raw, <<>>)
    IN [i \in 1..Len(pieces) |-> PyStrip(pieces[i])]

(* split_fill_answer(raw). *)
split_fill_answer(raw) ==
    LET pieces == ReSplit(raw, <<>>)
        parts == [i \in 1..Len(pieces) |-> PyStrip(pieces[i])]
    IN SelectSeq(parts, LAMBDA p : p # <<>>)

(* "a|b, c，d" *)
AnswerExample == <<"a", "|", "b", ",", " ", "c", FullComma, "d">>

(* The answers given to split_fill_answer. *)
Answers == Strings({"a", "b", " ", "|", ",", FullComma}, MaxAnswerLen) \cup {AnswerExample}

call_split_fill_answer ==
    /\ fnName = "split_fill_answer"
    /\ fnOut = <<>>
    /\ fnOut' = <<split_fill_answer(fnIn)>>
    /\ UNCHANGED <<fnName, fnIn, loopVars, injVars>>

(* WebElement.send_keys(val) types after what the input holds. *)
SendKeys(value, val) == value \o val

(* Variation of ClearInput: clear() leaves the input as it was. *)
ClearInput_Keeps(value) == value

(* WebElement.clear(). *)
ClearInput(value) == <<>>

(* fill_blanks, the loop over the inputs from position idx on: clear(),     *)
(* then send_keys(val) when val is not empty; an input that cannot be       *)
(* edited raises and leaves the later inputs as they were. The result is    *)
(* the values of the inputs from idx on, and whether the loop raised.       *)
RECURSIVE FillLoop(_, _, _)
FillLoop(inputs, parts, idx) ==
    IF idx > Len(inputs) THEN [values |-> <<>>, raised |-> FALSE]
    ELSE IF ~inputs[idx].ok
    THEN [values |-> [i \in 1..(Len(inputs) - idx + 1) |-> inputs[idx + i - 1].value],
          raised |-> TRUE]
    ELSE LET val == IF idx <= Len(parts) THEN parts[idx] ELSE <<>>
             cleared == ClearInput(inputs[idx].value)
             rest == FillLoop(inputs, parts, idx + 1)
         IN [values |-> <<IF val # <<>> THEN SendKeys(cleared, val) ELSE cleared>>
                         \o rest.values,
             raised |-> rest.raised]

(* The states of the save control: not in the page, in the page and         *)
(* disabled, enabled and visible, or enabled but not displayed.             *)
Saves == {"absent", "disabled", "enabled", "hidden"}

(* Variation of SaveErrorCaught: neither save step has an except clause. *)
SaveErrorCaught_Nothing(fn, exc) == FALSE

(* The except clauses of the two save steps: try_click_save catches every   *)
(* Exception, fill_blanks catches NoSuchElementException only.              *)
SaveErrorCaught(fn, exc) ==
    fn = "try_click_save" \/ exc = "NoSuchElementException"

(* try_click_save(): the wait for the save control to be clickable          *)
(* (displayed and enabled) and the click; ops are the WebDriver commands    *)
(* sent, clicked whether the control received a click.                      *)
try_click_save_effect(save) ==
    IF save = "enabled"
    THEN [ops |-> <<"element_to_be_clickable", "click">>, clicked |-> TRUE,
          raised |-> FALSE]
    ELSE [ops |-> <<"element_to_be_clickable">>, clicked |-> FALSE,
          raised |-> ~SaveErrorCaught("try_click_save", "TimeoutException")]

(* fill_blanks, the save step after the loop: find_element of the save      *)
(* control, is_enabled(), click(); a control that is not displayed cannot   *)
(* be clicked.                                                              *)
fill_blanks_save(save) ==
    IF save = "absent"
    THEN [ops |-> <<"find_element">>, clicked |-> FALSE,
          raised |-> ~SaveErrorCaught("fill_blanks", "NoSuchElementException")]
    ELSE IF save = "disabled"
    THEN [ops |-> <<"find_element", "is_enabled">>, clicked |-> FALSE, raised |-> FALSE]
    ELSE IF save = "hidden"
    THEN [ops |-> <<"find_element", "is_enabled", "click">>, clicked |-> FALSE,
          raised |-> ~SaveErrorCaught("fill_blanks", "ElementNotInteractableException")]
    ELSE [ops |-> <<"find_element", "is_enabled", "click">>, clicked |-> TRUE,
          raised |-> FALSE]

(* fill_blanks(answer_text) on a page with the given blank inputs and save  *)
(* control: the loop, then the save step.                                   *)
fill_blanks_effect(page) ==
    LET parts == split_fill_answer(page.answer)
        loop == FillLoop(page.inputs, parts, 1)
        step == fill_blanks_save(page.save)
    IN [values |-> loop.values,
        raised |-> loop.raised \/ step.raised,
        saveSought |-> ~loop.raised,
        saveOps |-> IF loop.raised THEN <<>> ELSE step.ops,
        saveClicked |-> ~loop.raised /\ step.clicked]

(* The pages given to fill_blanks: the blank inputs with what they hold and *)
(* whether they can be edited, the answer, and the save control.            *)
BlankPages ==
    [inputs : UNION {[1..k -> [value : {<<>>, <<"o">>}, ok : BOOLEAN]] : k \in 0..MaxBlanks},
     answer : Strings({"a", " ", "|"}, MaxAnswerLen),
     save : Saves]

call_fill_blanks ==
    /\ fnName = "fill_blanks"
    /\ fnOut = <<>>
    /\ fnOut' = <<fill_blanks_effect(fnIn)>>
    /\ UNCHANGED <<fnName, fnIn, loopVars, injVars>>

call_try_click_save ==
    /\ fnName = "try_click_save"
    /\ fnOut = <<>>
    /\ fnOut' = <<try_click_save_effect(fnIn)>>
    /\ UNCHANGED <<fnName, fnIn, loopVars, injVars>>

MaxLetterLen == 3
MaxOptions == 2

(* Python's None. *)
None == "None"

(* re.search(r"([A-Z])", text) from position i on: the position of the     *)
(* first character of A-Z, 0 when there is none.                           *)
RECURSIVE SearchLetter(_, _)
SearchLetter(text, i) ==
    IF i > Len(text) THEN 0
    ELSE IF IsUpperLetter(text[i]) THEN i
    ELSE SearchLetter(text, i + 1)

(* Python's `x in list`. *)
InList(x, list) == \E k \in 1..Len(list) : list[k] = x

(* Variation of normalize_letter_answer: the letter found is returned      *)
(* whether or not it is one of valid_letters.                              *)
normalize_letter_answer_AnyLetter(ans, valid_letters) ==
    LET text == Upper(PyStrip(ans))
        m == SearchLetter(text, 1)
    IN IF ans # <<>> /\ m # 0 THEN text[m] ELSE None

(* Variation of normalize_letter_answer: the answer is not uppercased.     *)
normalize_letter_answer_NoUpper(ans, valid_letters) ==
    LET text == PyStrip(ans)
        m == SearchLetter(text, 1)
    IN IF ans # <<>> /\ m # 0 /\ (valid_letters = <<>> \/ InList(text[m], valid_letters))
       THEN text[m] ELSE None

(* normalize_letter_answer(ans, valid_letters). *)
normalize_letter_answer(ans, valid_letters) ==
    IF ans = <<>> THEN None
    ELSE LET text == Upper(PyStrip(ans))
             m == SearchLetter(text, 1)
         IN IF m # 0 /\ (valid_letters = <<>> \/ InList(text[m], valid_letters))
            THEN text[m]
            ELSE None

(* run: valid_letters = [o.key for o in q.options if o.key]. *)
ValidLetters(options) ==
    LET keys == [i \in 1..Len(options) |-> options[i].key]
    IN SelectSeq(keys, LAMBDA k : k # "")

(* click_single_choice(letter) on a page whose clickable option inputs     *)
(* carry the given values: the input whose value is the letter is clicked, *)
(* and the wait times out when there is none.                              *)
click_single_choice_effect(letter, inputs) ==
    LET value == UpperChar(letter)
    IN IF value \in inputs
       THEN [clicked |-> <<value>>, raised |-> FALSE]
       ELSE [clicked |-> <<>>, raised |-> TRUE]

(* run, the choice branch after the backend has answered: the letter is    *)
(* normalised, falls back to the first letter of the options or to "A",    *)
(* and its input is clicked; `next` is where the loop goes on.             *)
answer_choice(page) ==
    LET valid_letters == ValidLetters(page.options)
        norm == normalize_letter_answer(page.answer, valid_letters)
        letter == IF norm # None THEN norm
                  ELSE IF valid_letters # <<>> THEN valid_letters[1] ELSE "A"
        click == click_single_choice_effect(letter, page.inputs)
    IN [branch |-> Branch("main", page.qtype),
        norm |-> norm,
        letter |-> letter,
        clicked |-> click.clicked,
        raised |-> click.raised,
        next |-> IF click.raised THEN OnException("main", "click_single_choice")
                 ELSE "next_click"]

SINGLE_CHOICE == <<"S", "I", "N", "G", "L", "E", "_", "C", "H", "O", "I", "C", "E">>

(* "答案是B" on a question with the options A, B and C; the three         *)
(* characters that are no Latin letters are named by their code points.    *)
ChoiceExample ==
    [qtype |-> SINGLE_CHOICE,
     options |-> <<[key |-> "A"], [key |-> "B"], [key |-> "C"]>>,
     answer |-> <<"U+7B54", "U+6848", "U+662F", "B">>,
     inputs |-> {"A", "B", "C"}]

(* The choice questions given to answer_choice: the tag, the option keys   *)
(* ("" for an option without a letter), the answer of the backend and the  *)
(* values of the option inputs that can be clicked.                        *)
ChoicePages ==
    [qtype : {SINGLE_CHOICE, T_JUDGE},
     options : UNION {[1..k -> [key : {"", "A", "B"}]] : k \in 0..MaxOptions},
     answer : Strings({"B", "a", "x", " "}, MaxLetterLen),
     inputs : SUBSET {"A", "B"}] \cup {ChoiceExample}

call_answer_choice ==
    /\ fnName = "answer_choice"
    /\ fnOut = <<>>
    /\ fnOut' = <<answer_choice(fnIn)>>
    /\ UNCHANGED <<fnName, fnIn, loopVars, injVars>>

(* The answers and letter lists given to normalize_letter_answer. *)
LetterArgs ==
    [ans : Strings({"B", "a", "x", " "}, MaxLetterLen),
     valid_letters : UNION {[1..k -> {"A", "B"}] : k \in 0..MaxOptions}]

call_normalize_letter_answer ==
    /\ fnName = "normalize_letter_answer"
    /\ fnOut = <<>>
    /\ fnOut' = <<normalize_letter_answer(fnIn.ans, fnIn.valid_letters)>>
    /\ UNCHANGED <<fnName, fnIn, loopVars, injVars>>

MaxHtmlLen == 3

(* innerHTML is a sequence of characters in which an <img ...> tag and a   *)
(* <br> tag are one item each; text characters never are "<" or ">",       *)
(* which innerHTML escapes.                                                *)
IMG == "<img>"
BR == "<br>"
P_TAG == <<"<", "p", ">">>

(* The pieces of the two substitution markers " [公式: {latex}] " and      *)
(* " [图片] ": the opening "[公式: ", the closing "]", and "[图片]".       *)
F_OPEN == "[F: "
F_CLOSE == "]"
PLACEHOLDER == "[IMG]"

(* clean_whitespace(s): every run of whitespace becomes one space, and the *)
(* ends are stripped.                                                      *)
RECURSIVE SquashWs(_)
SquashWs(s) ==
    IF s = <<>> THEN s
    ELSE IF Head(s) \in WhiteSpace
    THEN (IF Len(s) > 1 /\ s[2] \in WhiteSpace THEN SquashWs(Tail(s))
          ELSE <<" ">> \o SquashWs(Tail(s)))
    ELSE <<Head(s)>> \o SquashWs(Tail(s))

(* Variation of clean_whitespace: without the final strip(). *)
clean_whitespace_NoStrip(s) == SquashWs(s)

clean_whitespace(s) == PyStrip(SquashWs(s))

MaxTextLen == 5

call_clean_whitespace ==
    /\ fnName = "clean_whitespace"
    /\ fnOut = <<>>
    /\ fnOut' = <<clean_whitespace(fnIn)>>
    /\ UNCHANGED <<fnName, fnIn, loopVars, injVars>>

(* The except clause around the recognition of one image: the exception    *)
(* is logged and the image gets the empty text.                            *)
OnRecognitionError == "empty"

(* The recognition of one image in the loop of                             *)
(* render_element_text_with_inline_latex: empty screenshot bytes give "",  *)
(* an exception gives "" by the except clause, else the stripped result.   *)
Recognize(outcome) ==
    IF outcome.kind = "nobytes" THEN [latex |-> <<>>, raised |-> FALSE]
    ELSE IF outcome.kind = "raise"
    THEN [latex |-> <<>>, raised |-> OnRecognitionError = "raise"]
    ELSE [latex |-> PyStrip(outcome.latex), raised |-> FALSE]

(* formulas: one entry per image when recognition is on and there are      *)
(* images, else "" for every image.                                        *)
Formulas(outcomes, ocr) ==
    [i \in 1..Len(outcomes) |->
        IF ocr THEN Recognize(outcomes[i]).latex ELSE <<>>]

(* re.sub(r"(?i)<br\s*/?>", "\n", html). *)
SubBr(html) == [i \in 1..Len(html) |-> IF html[i] = BR THEN NL ELSE html[i]]

(* _img_replacer: the marker for the image of the given index. *)
ImgMarker(formulas, index) ==
    LET latex == IF index <= Len(formulas) THEN formulas[index] ELSE <<>>
    IN IF latex # <<>> THEN <<" ", F_OPEN>> \o latex \o <<F_CLOSE, " ">>
       ELSE <<" ", PLACEHOLDER, " ">>

(* re.sub(r"(?i)<img\b[^>]*>", _img_replacer, html): index counts the      *)
(* images replaced so far, from 1.                                         *)
RECURSIVE SubImg(_, _, _)
SubImg(html, formulas, index) ==
    IF html = <<>> THEN html
    ELSE IF Head(html) = IMG
    THEN ImgMarker(formulas, index) \o SubImg(Tail(html), formulas, index + 1)
    ELSE <<Head(html)>> \o SubImg(Tail(html), formulas, index)

(* The position of the first ">" of s after position i, 0 when none. *)
RECURSIVE NextGt(_, _)
NextGt(s, i) ==
    IF i > Len(s) THEN 0
    ELSE IF s[i] = ">" THEN i
    ELSE NextGt(s, i + 1)

(* re.sub(r"<[^>]+>", "", html): a "<", one or more characters other than  *)
(* ">", and the ">" after them are removed, from left to right.            *)
RECURSIVE StripTags(_)
StripTags(s) ==
    IF s = <<>> THEN s
    ELSE IF Head(s) = "<" /\ NextGt(s, 2) > 2
    THEN StripTags(SubSeq(s, NextGt(s, 2) + 1, Len(s)))
    ELSE <<Head(s)>> \o StripTags(Tail(s))

(* The characters of innerHTML: a tag other than img and br is spelled out. *)
RECURSIVE HtmlChars(_)
HtmlChars(items) ==
    IF items = <<>> THEN items
    ELSE (IF Head(items) = "<p>" THEN P_TAG ELSE <<Head(items)>>)
         \o HtmlChars(Tail(items))

(* The img elements of the element, in document order. *)
ImgCount(items) == Len(SelectSeq(items, LAMBDA x : x = IMG))

(* render_element_text_with_inline_latex(element) on an element with the   *)
(* given innerHTML, whose images have the given recognition outcomes.      *)
render_element_text_with_inline_latex(el) ==
    LET html == HtmlChars(el.html)
        recs == [i \in 1..Len(el.outcomes) |-> Recognize(el.outcomes[i])]
        raised == el.ocr /\ \E i \in 1..Len(recs) : recs[i].raised
        formulas == Formulas(el.outcomes, el.ocr)
    IN IF html = <<>> THEN [text |-> clean_whitespace(<<>>), raised |-> FALSE,
                            formulas |-> <<>>]
       ELSE [text |-> clean_whitespace(StripTags(SubImg(SubBr(html), formulas, 1))),
             raised |-> raised,
             formulas |-> formulas]

(* The elements given to the function: text, images, line breaks and       *)
(* other tags; each image is recognised, gives no screenshot bytes, or     *)
(* makes the recogniser raise.                                             *)
Elements ==
    LET latexes == {<<" ">>, <<"x">>, <<"a", "<", "b">>, <<"c", ">", "d">>}
        outcomes ==
            {[kind |-> "raise", latex |-> <<>>], [kind |-> "nobytes", latex |-> <<>>]}
            \cup {[kind |-> "latex", latex |-> l] : l \in latexes}
    IN UNION {[html : {h}, outcomes : [1..ImgCount(h) -> outcomes], ocr : BOOLEAN] :
                 h \in Strings({"t", IMG, BR, "<p>"}, MaxHtmlLen)}

call_render_element_text_with_inline_latex ==
    /\ fnName = "render_element_text_with_inline_latex"
    /\ fnOut = <<>>
    /\ fnOut' = <<render_element_text_with_inline_latex(fnIn)>>
    /\ UNCHANGED <<fnName, fnIn, loopVars, injVars>>

MaxRegions == 2

(* The two section labels of get_question_text_for_code, "【题目描述】"   *)
(* and "【系统给出的起始代码...】".                                        *)
DESC_LABEL == "[DESC]"
CODE_LABEL == "[CODE]"

(* sep.join(texts). *)
RECURSIVE Join(_, _)
Join(texts, sep) ==
    IF texts = <<>> THEN <<>>
    ELSE IF Len(texts) = 1 THEN texts[1]
    ELSE texts[1] \o sep \o Join(Tail(texts), sep)

(* txt.replace("\r\n", "\n"). *)
RECURSIVE ReplaceCrLf(_)
ReplaceCrLf(s) ==
    IF s = <<>> THEN s
    ELSE IF Len(s) > 1 /\ s[1] = "\r" /\ s[2] = NL
    THEN <<NL>> \o ReplaceCrLf(Tail(Tail(s)))
    ELSE <<Head(s)>> \o ReplaceCrLf(Tail(s))

(* txt.strip("\n"). *)
RECURSIVE StripNl(_)
StripNl(s) ==
    IF s = <<>> THEN s
    ELSE IF Head(s) = NL THEN StripNl(Tail(s))
    ELSE IF s[Len(s)] = NL THEN StripNl(SubSeq(s, 1, Len(s) - 1))
    ELSE s

(* Variation of KeepNonEmpty: every text is appended. *)
KeepNonEmpty_KeepsAll(texts) == texts

(* `if txt: list.append(txt)` over the texts. *)
KeepNonEmpty(texts) == SelectSeq(texts, LAMBDA t : t # <<>>)

(* get_question_text_for_code() on a page with the given description       *)
(* regions (what each renders to, and its textContent or that reading it   *)
(* raises) and preformatted blocks (their textContent).                    *)
get_question_text_for_code_result(page) ==
    LET faces == page.faces
        face_texts == KeepNonEmpty([i \in 1..Len(faces) |-> faces[i].rendered])
        face_text == PyStrip(Join(face_texts, <<NL>>))
        template_codes ==
            KeepNonEmpty([i \in 1..Len(page.pres) |-> StripNl(ReplaceCrLf(page.pres[i]))])
        parts == (IF face_text # <<>> THEN <<<<DESC_LABEL>>, face_text>> ELSE <<>>)
                 \o (IF template_codes # <<>>
                     THEN <<<<CODE_LABEL>>, Join(template_codes, <<NL, NL>>)>>
                     ELSE <<>>)
    IN IF parts = <<>>
       THEN (IF \E i \in 1..Len(faces) : faces[i].raw.raises THEN <<>>
             ELSE PyStrip(Join([i \in 1..Len(faces) |-> PyStrip(faces[i].raw.text)], <<NL>>)))
       ELSE Join(parts, <<NL, NL>>)

(* The pages given to get_question_text_for_code. *)
CodePages ==
    LET rendered == {<<>>, <<"d">>, <<"e">>}
        raw == {[raises |-> TRUE, text |-> <<>>], [raises |-> FALSE, text |-> <<" ">>],
                [raises |-> FALSE, text |-> <<"r", " ">>]}
        pre == {<<>>, <<NL>>, <<"c">>, <<"\r", NL, "k", NL>>}
    IN [faces : UNION {[1..k -> [rendered : rendered, raw : raw]] : k \in 0..MaxRegions},
        pres : UNION {[1..k -> pre] : k \in 0..MaxRegions}]

call_get_question_text_for_code ==
    /\ fnName = "get_question_text_for_code"
    /\ fnOut = <<>>
    /\ fnOut' = <<get_question_text_for_code_result(fnIn)>>
    /\ UNCHANGED <<fnName, fnIn, loopVars, injVars>>

(* The driver loop is not running. *)
LoopStopped ==
    /\ variant = "main"
    /\ nQuestions = 1
    /\ cursor = 1
    /\ domEl = 1
    /\ domQ = 1
    /\ domType = FILL_BLANK
    /\ pendRender = FALSE
    /\ pendDialog = "none"
    /\ dialog = "none"
    /\ pc = "stopped"
    /\ count = 1
    /\ q_el = 0
    /\ q = NoSnapshot
    /\ is_last = FALSE
    /\ llm_answer = "none"
    /\ excSite = "none"
    /\ log = {}
    /\ calls = <<>>
    /\ clicks = 0
    /\ capLog = <<>>
    /\ advances = 0
    /\ alertText = "none"
    /\ accepted = FALSE
    /\ staleTimedOut = FALSE
    /\ upstream = "none"
    /\ boot = Booted

FnInit ==
    /\ LoopStopped
    /\ InjIdle
    /\ fnOut = <<>>
    /\ \/ fnName = "parse_option_label" /\ fnIn \in Labels
       \/ fnName = "split_fill_answer" /\ fnIn \in Answers
       \/ fnName = "fill_blanks" /\ fnIn \in BlankPages
       \/ fnName = "normalize_letter_answer" /\ fnIn \in LetterArgs
       \/ fnName = "answer_choice" /\ fnIn \in ChoicePages
       \/ fnName = "render_element_text_with_inline_latex" /\ fnIn \in Elements
       \/ fnName = "get_question_text_for_code" /\ fnIn \in CodePages
       \/ fnName = "try_click_save" /\ fnIn \in Saves
       \/ fnName = "clean_whitespace" /\ fnIn \in Strings({"a", " ", NL}, MaxTextLen)

FnNext ==
    \/ call_parse_option_label
    \/ call_split_fill_answer
    \/ call_fill_blanks
    \/ call_normalize_letter_answer
    \/ call_answer_choice
    \/ call_render_element_text_with_inline_latex
    \/ call_get_question_text_for_code
    \/ call_try_click_save
    \/ call_clean_whitespace

FnSpec == FnInit /\ [][FnNext]_vars

(***************************************************************************)
(* Startup: main() from the configuration to the loop.                     *)
(***************************************************************************)
(* Variation of RequiredFields: the API key is not required. *)
RequiredFields_NoApiKey == {"username", "password"}

(* The fields main requires of the configuration. *)
RequiredFields == {"username", "password", "deepseek_api_key"}

(* cfg.get(k, ""): a field of config.json is not in the file ("missing"),  *)
(* empty, or set.                                                          *)
CfgGet(cfg, k) == IF cfg[k] = "missing" THEN "" ELSE cfg[k]

(* raise SystemExit(msg), or another exception before the session exists:  *)
(* the process ends with the diagnostic.                                   *)
Exit(diag) ==
    /\ pc' = "exited"
    /\ boot' = [boot EXCEPT !.diag = diag]

(* load_config(): in quiz_solver_code.py it checks the required fields. *)
load_config ==
    /\ pc = "load_config"
    /\ IF variant = "code" /\ \E k \in RequiredFields : boot.cfg[k] \in {"missing", ""}
       THEN Exit("config")
       ELSE pc' = "check_config" /\ boot' = boot
    /\ UNCHANGED <<injVars, fnVars, upstream, variant, pageVars, dialog, count, q_el, q,
                   is_last, llm_answer, excSite, log, calls, clicks, capLog, advances,
                   advVars>>

(* main: the fields are read and, in main.py, quiz_solver.py and           *)
(* quiz_solver_mc_fill.py, tested together.                                *)
check_config ==
    /\ pc = "check_config"
    /\ IF variant # "code" /\ \E k \in RequiredFields : CfgGet(boot.cfg, k) = ""
       THEN Exit("config")
       ELSE pc' = "input_url" /\ boot' = boot
    /\ UNCHANGED <<injVars, fnVars, upstream, variant, pageVars, dialog, count, q_el, q,
                   is_last, llm_answer, excSite, log, calls, clicks, capLog, advances,
                   advVars>>

(* main: question_url = input(...).strip(), and the exit when it is empty. *)
input_url(typed) ==
    /\ pc = "input_url"
    /\ pc' = IF PyStrip(typed) = <<>> THEN "exited" ELSE "build_driver"
    /\ boot' = [boot EXCEPT !.url = [read |-> TRUE, text |-> PyStrip(typed)],
                            !.diag = IF PyStrip(typed) = <<>> THEN "url" ELSE @]
    /\ UNCHANGED <<injVars, fnVars, upstream, variant, pageVars, dialog, count, q_el, q,
                   is_last, llm_answer, excSite, log, calls, clicks, capLog, advances,
                   advVars>>

(* main: the language prompt, the answer client and build_driver(), which  *)
(* raises when Chrome does not start.                                      *)
build_driver(started) ==
    /\ pc = "build_driver"
    /\ IF started
       THEN pc' = "login" /\ boot' = [boot EXCEPT !.session = "open"]
       ELSE Exit("driver")
    /\ UNCHANGED <<injVars, fnVars, upstream, variant, pageVars, dialog, count, q_el, q,
                   is_last, llm_answer, excSite, log, calls, clicks, capLog, advances,
                   advVars>>

(* main: the login inside the try block; an exception leaves main through  *)
(* the finally clause.                                                     *)
login(ok) ==
    /\ pc = "login"
    /\ pc' = IF ok THEN "capture_el" ELSE "failed"
    /\ boot' = [boot EXCEPT !.loggedIn = ok]
    /\ excSite' = IF ok THEN excSite ELSE "login"
    /\ UNCHANGED <<injVars, fnVars, upstream, variant, pageVars, dialog, count, q_el, q,
                   is_last, llm_answer, log, calls, clicks, capLog, advances, advVars>>

(* Variation of FinallyRuns: driver.quit() is the statement after          *)
(* solver.run() instead of a finally clause.                               *)
FinallyRuns_OnReturn(p) == p = "done"

(* main: the try statement around the login and the run has a finally      *)
(* clause, entered when run returns and when an exception leaves the try   *)
(* block.                                                                  *)
FinallyRuns(p) == p \in {"done", "failed"}

(* main, the finally clause: driver.quit() inside its own try, whose except *)
(* clause passes. A quit that raised leaves the browser to itself.         *)
main_finally(quitOk) ==
    /\ FinallyRuns(pc)
    /\ boot.session = "open"
    /\ boot' = [boot EXCEPT !.session = IF quitOk THEN "quit" ELSE "lost",
                            !.quits = @ + 1]
    /\ UNCHANGED <<injVars, fnVars, upstream, variant, pageVars, dialog, pc, count, q_el,
                   q, is_last, llm_answer, excSite, log, calls, clicks, capLog, advances,
                   advVars>>

BootInit ==
    /\ variant \in Variants
    /\ nQuestions \in 1..MaxQuestions
    /\ cursor = 1
    /\ domEl = 1
    /\ domQ = 1
    /\ domType \in RawTypes
    /\ pendRender = FALSE
    /\ pendDialog = "none"
    /\ dialog = "none"
    /\ pc = "load_config"
    /\ count = 1
    /\ q_el = 0
    /\ q = NoSnapshot
    /\ is_last = FALSE
    /\ llm_answer = "none"
    /\ excSite = "none"
    /\ log = {}
    /\ calls = <<>>
    /\ clicks = 0
    /\ capLog = <<>>
    /\ advances = 0
    /\ alertText = "none"
    /\ accepted = FALSE
    /\ staleTimedOut = FALSE
    /\ upstream = "none"
    /\ boot \in [cfg : [username : {"missing", "", "x"},
                        password : {"missing", "", "x"},
                        deepseek_api_key : {"missing", "", "x"}],
                 url : {[read |-> FALSE, text |-> <<>>]},
                 session : {"none"},
                 loggedIn : {FALSE},
                 diag : {"none"},
                 quits : {0}]
    /\ InjIdle
    /\ FnIdle

BootNext ==
    \/ load_config
    \/ check_config
    \/ \E typed \in {<<>>, <<" ">>, <<"u">>, <<" ", "u">>} : input_url(typed)
    \/ \E started \in BOOLEAN : build_driver(started)
    \/ \E ok \in BOOLEAN : login(ok)
    \/ \E quitOk \in BOOLEAN : main_finally(quitOk)
    \/ Next

BootSpec == BootInit /\ [][BootNext]_vars

(* main is sequential: once control has left the try block the finally     *)
(* clause is executed.                                                     *)
BootLiveSpec ==
    BootSpec /\ WF_vars(\E quitOk \in BOOLEAN : main_finally(quitOk))

(***************************************************************************)
(* Properties.                                                             *)
(***************************************************************************)
RunVariants == {"main", "solver", "mc_fill"}

(* The operations of the answering path that can raise. *)
AnswerSites == {"ask", "click_single_choice", "fill_blanks",
                "get_question_text_for_code", "ensure_editor_present"}

InjectOps == {"click_single_choice", "fill_blanks", "set_editor_content",
              "try_click_save"}

Invoked(op) == \E i \in 1..Len(calls) : calls[i] = op

LastCall == IF calls = <<>> THEN "none" ELSE calls[Len(calls)]

(* C1: in run (main.py, quiz_solver.py, quiz_solver_mc_fill.py) an          *)
(* exception raised while asking the backend or injecting the answer is    *)
(* caught and logged, go_next_question is invoked next for the same         *)
(* question, and the run does not end because of it.                       *)
C1_AnswerExceptionCaught ==
    (variant \in RunVariants /\ excSite \in AnswerSites) =>
        /\ pc \in {"next_click", "alert_wait", "stale_wait", "ret", "done", "capture_el"}
        /\ "exception" \in log
        /\ pc # "next_click" => LastCall = "go_next_question"

C1_Witness ==
    /\ variant = "main"
    /\ excSite = "ask"
    /\ pc = "ret"
    /\ LastCall = "go_next_question"

(* C2: the run ends only when advance reports the terminal signal or when   *)
(* the advance step itself fails; a capture that does not find the         *)
(* question container or face within its wait does not end the run.        *)
C2_RunEndsOnlyByAdvance ==
    (variant = "main" /\ pc = "failed") => excSite = "go_next_question"

(* C3: a failure inside go_next_question is not caught by run: the run ends *)
(* with the error and no capture, backend call or injection follows it.    *)
C3_AdvanceFailureFatal ==
    excSite = "go_next_question" =>
        /\ pc = "failed"
        /\ LastCall = "go_next_question"

C3_Witness ==
    /\ variant = "main"
    /\ pc = "failed"
    /\ excSite = "go_next_question"
    /\ clicks = 0
    /\ count = 2

(* The state of the loop a step belongs to. *)
StepRank(op) ==
    CASE op \in {"wait_for_question_item", "collect_current_question"} -> 1
      [] op = "classify" -> 2
      [] op \in {"get_question_text_for_code", "ensure_editor_present", "ask"} -> 3
      [] op \in InjectOps -> 4
      [] OTHER -> 5

(* C4: in every iteration the steps come in the order capture, classify,    *)
(* answer, inject, advance; the next control is clicked once, after all    *)
(* answer writing; the loop goes back to capture exactly when advance      *)
(* returned non-terminal and ends exactly when it returned terminal.       *)
C4_StepOrder ==
    /\ \A i \in 1..Len(calls) : \A j \in (i + 1)..Len(calls) :
           /\ StepRank(calls[i]) <= StepRank(calls[j])
           /\ ~(calls[i] = "go_next_question" /\ calls[j] = "go_next_question")
    /\ calls # <<>> => calls[1] = "wait_for_question_item"
    /\ clicks <= 1
    /\ clicks = 1 => LastCall = "go_next_question"
    /\ pc \in {"alert_wait", "stale_wait", "ret", "done"} => clicks = 1
    /\ pc = "done" => is_last
    /\ (pc = "capture_el" /\ count > 1) => ~is_last /\ clicks = 1

C4_Witness ==
    /\ variant = "main"
    /\ pc = "done"
    /\ count = 2
    /\ clicks = 1
    /\ Invoked("set_editor_content")
    /\ Invoked("try_click_save")

(* C5: go_next_question returns True exactly when the short wait found a    *)
(* dialog whose text has the sentinel; a dialog that was found has been    *)
(* accepted when it returns, with or without the sentinel, and one without *)
(* the sentinel leaves the result False.                                   *)
C5_TerminalIffSentinel ==
    pc = "ret" =>
        /\ is_last <=> alertText = "last"
        /\ alertText # "none" => accepted
        /\ alertText = "other" => ~is_last

C5_Witness ==
    /\ variant = "main"
    /\ pc = "ret"
    /\ alertText = "last"
    /\ is_last
    /\ accepted
    /\ dialog = "none"

(* C6: on a cooperative page with N questions the run ends normally having  *)
(* captured each of the N questions once, in order, and having called      *)
(* go_next_question N times.                                               *)
C6_EachQuestionOnce ==
    (variant = "main" /\ pc = "done") =>
        /\ Len(capLog) = nQuestions
        /\ \A k \in 1..Len(capLog) : capLog[k].idx = k
        /\ advances = nQuestions

(* C7: in main.py, quiz_solver.py and quiz_solver_code.py a timeout of the  *)
(* staleness wait is logged only: go_next_question returns the flag it     *)
(* computed from the dialog and the loop goes on to the next capture.      *)
C7_StaleTimeoutNonFatal ==
    (variant # "mc_fill" /\ staleTimedOut) =>
        /\ pc \in {"ret", "done", "capture_el"}
        /\ "stale_timeout" \in log
        /\ is_last <=> alertText = "last"
        /\ pc = "capture_el" => ~is_last
        /\ excSite # "go_next_question"

C7_Witness ==
    /\ variant = "main"
    /\ staleTimedOut
    /\ pc = "capture_el"
    /\ count = 2
    /\ ~is_last

(* C8: the question captured in an iteration is never the on-screen        *)
(* question instance captured in the iteration before it.                  *)
C8_NeverRecapture ==
    variant = "main" =>
        \A k \in 1..Len(capLog) : k > 1 => capLog[k].el # capLog[k - 1].el

(* The click of this iteration was made on the last question, and the     *)
(* dialog it asked for has been opened.                                    *)
ClickedFinal ==
    /\ clicks = 1
    /\ cursor = nQuestions
    /\ ~pendRender
    /\ q_el = domEl
    /\ pendDialog = "none"

(* C9: in quiz_solver_mc_fill.py, when the next click on the last question  *)
(* raises the last-question dialog, go_next_question returns True and the  *)
(* run ends through the break, not through an exception.                   *)
C9_McFillReturnsTrueOnLast ==
    (variant = "mc_fill" /\ ClickedFinal) =>
        \/ pc \in {"stale_wait", "alert_wait"}
        \/ pc \in {"ret", "done"} /\ is_last

(* The tag matches none of the classifier rules. *)
MatchesNoRule(qtype) ==
    \A t \in {T_SINGLE, T_JUDGE, T_FILL} \cup CodeTags : ~Contains(qtype, t)

(* C10: in main.py and quiz_solver_mc_fill.py a question whose tag matches  *)
(* none of the classifier rules gets no backend call and no injection      *)
(* operation; the skip is logged and go_next_question is still performed.  *)
C10_UnknownSkipped ==
    (variant \in {"main", "mc_fill"} /\ Invoked("classify") /\ MatchesNoRule(q.qtype)) =>
        /\ \A i \in 1..Len(calls) :
               calls[i] \notin InjectOps \cup {"ask", "get_question_text_for_code",
                                               "ensure_editor_present"}
        /\ "skip" \in log
        /\ pc \in {"next_click", "alert_wait", "stale_wait", "ret", "done",
                   "capture_el", "failed"}
        /\ pc = "failed" => excSite = "go_next_question"
        /\ pc # "next_click" => LastCall = "go_next_question"

C10_Witness ==
    /\ variant = "main"
    /\ q.qtype = ESSAY_FREEFORM
    /\ pc = "ret"
    /\ "skip" \in log
    /\ LastCall = "go_next_question"

LowerSet == {LowerChars[i] : i \in 1..Len(LowerChars)}

(* The classification the rules give a tag: the first rule, in the order   *)
(* choice, fill, code, whose substring the tag has.                        *)
RuleClass(tag) ==
    LET has(t) == Contains(tag, t)
        rules == <<[class |-> "CHOICE", any |-> {T_SINGLE, T_JUDGE}],
                   [class |-> "FILL", any |-> {T_FILL}],
                   [class |-> "CODE",
                    any |-> {T_PROGRAM, T_SQL, T_DESIGN, T_CORRECT, T_DB_SQL}]>>
        hits == {i \in 1..Len(rules) : \E t \in rules[i].any : has(t)}
    IN IF hits = {} THEN "UNKNOWN"
       ELSE rules[CHOOSE i \in hits : \A j \in hits : i <= j].class

(* The strategy branches the operations of this iteration belong to. *)
BranchesRun ==
    {b \in {"CHOICE", "FILL", "CODE", "UNKNOWN"} :
        \/ b = "CHOICE" /\ (pc = "click_choice" \/ Invoked("click_single_choice"))
        \/ b = "FILL" /\ (pc = "fill" \/ Invoked("fill_blanks"))
        \/ b = "CODE" /\ (pc = "code_prompt" \/ Invoked("get_question_text_for_code")
                           \/ Invoked("set_editor_content"))
        \/ b = "UNKNOWN" /\ "skip" \in log}

(* C11: in main.py the strategy branch of a question is a function of its   *)
(* uppercased type tag with the precedence choice (SINGLE, JUDGE), fill     *)
(* (FILL), code (PROGRAM, SQL, DESIGN, CORRECT, DB_SQL), unknown, so that   *)
(* PROGRAM_FILL_BLANK is answered as a fill question; the operations of one *)
(* iteration belong to one branch only.                                     *)
C11_ClassificationPrecedence ==
    (variant = "main" /\ Invoked("classify")) =>
        \A class \in {RuleClass(q.qtype)} : \A run \in {BranchesRun} :
            /\ \A i \in 1..Len(q.qtype) : q.qtype[i] \notin LowerSet
            /\ run \subseteq {class}
            /\ class \in {"CODE", "UNKNOWN"} => run # {}
            /\ (class \in {"CHOICE", "FILL"} /\ llm_answer # "none") => run # {}
            /\ (class \in {"CHOICE", "FILL"} /\ llm_answer = "none")
                   => pc = "ask" \/ Invoked("ask")
            /\ q.qtype = PROGRAM_FILL_BLANK => class = "FILL"

C11_Witness ==
    /\ variant = "main"
    /\ q.qtype = PROGRAM_FILL_BLANK
    /\ Invoked("fill_blanks")
    /\ ~Invoked("set_editor_content")
    /\ pc = "ret"

(* The attempts of this call follow the order of Backends, none skipped,  *)
(* and no attempt follows one that reported success.                       *)
InOrderUntilSuccess ==
    /\ Len(attempts) <= Len(Backends)
    /\ \A k \in 1..Len(attempts) : attempts[k].b = Backends[k]
    /\ \A k \in 1..Len(attempts) : attempts[k].r \in Successes => k = Len(attempts)
    /\ injPc \in {"done", "raised"} \/ attempts = <<>>
          \/ attempts[Len(attempts)].r \notin Successes

(* The backend kinds whose attempt reported success in this call. *)
Reported ==
    {BackendKind(attempts[k].b) : k \in {j \in 1..Len(attempts) : attempts[j].r \in Successes}}

C14_ContextRestored ==
    /\ ctx = "frame" <=> injPc \in FramePositions
    /\ injPc \notin FramePositions => ctx = "default"

C14_Witness ==
    /\ injCalls = 2
    /\ injPc = "done"
    /\ ctx = "default"
    /\ \E k \in 1..Len(attempts) :
           BackendKind(attempts[k].b) = "monaco" /\ attempts[k].r = "raise"
    /\ \E k \in 1..Len(attempts) :
           BackendKind(attempts[k].b) = "monaco" /\ attempts[k].r = "false"
    /\ attempts[Len(attempts)] = [b |-> "monaco3", r |-> "applied"]

(* Operation a was invoked before operation b in this iteration. *)
InvokedBefore(a, b) ==
    \E j \in 1..Len(calls) : calls[j] = b /\ \E i \in 1..(j - 1) : calls[i] = a

(* The positions of the loop after try_click_save. *)
AdvancePcs == {"next_click", "alert_wait", "stale_wait", "ret", "done", "failed",
               "capture_el"}

(* C15: for a code question, when set_editor_content returned false a       *)
(* warning is logged, try_click_save is still the next operation and the    *)
(* loop goes on to go_next_question; the save attempt comes after the       *)
(* injection whether the injection succeeded or not.                        *)
C15_SaveAfterInjection ==
    /\ "not_written" \in log =>
          /\ Invoked("set_editor_content")
          /\ pc \in {"save"} \cup AdvancePcs
          /\ pc \notin {"save", "next_click"} => Invoked("go_next_question")
    /\ (Invoked("set_editor_content") /\ pc # "save") =>
          /\ InvokedBefore("set_editor_content", "try_click_save")
          /\ pc \in AdvancePcs
    /\ pc = "save" => LastCall = "set_editor_content"
    /\ Invoked("try_click_save") => InvokedBefore("set_editor_content", "try_click_save")

C15_Witness ==
    /\ variant = "main"
    /\ "not_written" \in log
    /\ dialog = "none"
    /\ InvokedBefore("set_editor_content", "try_click_save")
    /\ InvokedBefore("try_click_save", "go_next_question")
    /\ pc = "ret"

(* C16 as stated: in main.py, quiz_solver.py and quiz_solver_mc_fill.py,    *)
(* ask returns the empty string, and raises nothing, on every upstream      *)
(* failure: a failed request as well as missing or null content.            *)
C16_AskNeverRaises ==
    (variant \in RunVariants /\ upstream \in {"null", "error"}) =>
        /\ llm_answer = "empty"
        /\ LastCall = "ask" => excSite # "ask"

(* C16, amended: ask returns the empty string when the response carries     *)
(* null content; a failed request raises out of ask, and it is the try      *)
(* block of run that catches it: the error is logged, nothing is injected   *)
(* and go_next_question comes next.                                         *)
C16_AskEmptyOnNullOnly ==
    variant \in RunVariants =>
        /\ upstream = "null" =>
              /\ llm_answer = "empty"
              /\ LastCall = "ask" => (excSite # "ask" /\ "exception" \notin log)
        /\ upstream = "error" =>
              /\ llm_answer = "none"
              /\ "exception" \in log
              /\ \A op \in InjectOps : ~Invoked(op)
              /\ LastCall = "ask" => (excSite = "ask" /\ pc = "next_click")
              /\ pc \in AdvancePcs

C16_Witness ==
    /\ variant = "mc_fill"
    /\ upstream = "error"
    /\ excSite = "ask"
    /\ LastCall = "go_next_question"
    /\ pc = "ret"

(* C17: in quiz_solver_code.main, when the request to the text service      *)
(* raises or its content is null, the answer is the empty string, and       *)
(* set_editor_content is still invoked with it, then try_click_save, then   *)
(* go_next_and_check_last.                                                  *)
C17_CodeVariantEmptyAnswer ==
    (variant = "code" /\ upstream \in {"null", "error"}) =>
        /\ llm_answer = "empty"
        /\ "exception" \in log
        /\ pc \in {"set_editor", "save"} \cup AdvancePcs
        /\ pc # "set_editor" => InvokedBefore("ask", "set_editor_content")
        /\ pc \notin {"set_editor", "save"} =>
              InvokedBefore("set_editor_content", "try_click_save")
        /\ pc \notin {"set_editor", "save", "next_click"} =>
              InvokedBefore("try_click_save", "go_next_question")

C17_Witness ==
    /\ variant = "code"
    /\ upstream = "null"
    /\ llm_answer = "empty"
    /\ InvokedBefore("set_editor_content", "try_click_save")
    /\ InvokedBefore("try_click_save", "go_next_question")
    /\ pc = "ret"

(* The lengths m for which t is a letter, then m characters that are       *)
(* whitespace with at most one label separator among them, then a rest     *)
(* without line break.                                                     *)
LabelSplits(t) ==
    {m \in 0..(Len(t) - 1) :
        /\ AllIn(t, 2, 1 + m, WhiteSpace \cup LabelSeparators)
        /\ Cardinality({i \in 2..(1 + m) : t[i] \in LabelSeparators}) <= 1
        /\ \A i \in (2 + m)..Len(t) : t[i] # NL}

(* C18 as stated: for a label whose trimmed form matches                    *)
(* ^[A-Z][.、．]?\s*(rest)$ parse_option_label returns the letter and the     *)
(* trimmed remainder, for any other label the empty key and the trimmed    *)
(* label.                                                                   *)
C18_LabelParsedByStatedPattern ==
    (fnName = "parse_option_label" /\ fnOut # <<>>) =>
        LET t == PyStrip(fnIn)
            m == MatchLabel(t, FALSE)
        IN IF m # <<>>
           THEN fnOut[1] = [key |-> m[1].g1, text |-> PyStrip(m[1].g2)]
           ELSE fnOut[1] = [key |-> "", text |-> t]

(* C18, amended: the pattern is ^([A-Z])\s*[.、．]?\s*(rest)$. For a label    *)
(* whose trimmed form is an uppercase letter, then whitespace with at most  *)
(* one separator in it, then a rest without line break, the key is the      *)
(* letter and the text is what follows the longest such run; for any other  *)
(* label the key is empty and the text is the trimmed label.                *)
C18_LabelParsed ==
    (fnName = "parse_option_label" /\ fnOut # <<>>) =>
        LET t == PyStrip(fnIn)
            out == fnOut[1]
            matches == t # <<>> /\ IsUpperLetter(t[1]) /\ LabelSplits(t) # {}
        IN /\ matches =>
                LET m == CHOOSE k \in LabelSplits(t) : \A j \in LabelSplits(t) : j <= k
                IN /\ out.key = t[1]
                   /\ out.text = SubSeq(t, 2 + m, Len(t))
                   /\ out.text = PyStrip(out.text)
           /\ ~matches => out = [key |-> "", text |-> t]

C18_Witness ==
    /\ fnName = "parse_option_label"
    /\ fnIn = <<"A", " ", ".", "x">>
    /\ fnOut = <<[key |-> "A", text |-> <<"x">>]>>

(* The positions that bound the pieces of s: 0, the delimiters, and the    *)
(* position after the end.                                                 *)
Cuts(s) == {0, Len(s) + 1} \cup {i \in 1..Len(s) : s[i] \in FillDelims}

(* The piece of s that begins after the cut d, trimmed. *)
PieceAfter(s, d) ==
    LET e == CHOOSE x \in Cuts(s) : x > d /\ \A y \in Cuts(s) : y > d => x <= y
    IN PyStrip(SubSeq(s, d + 1, e - 1))

(* The cuts of s after which a non-empty part begins. *)
PartCuts(s) == {d \in Cuts(s) \ {Len(s) + 1} : PieceAfter(s, d) # <<>>}

(* C19: split_fill_answer splits at every '|', ',' and '，', trims every    *)
(* part, drops the empty ones and keeps the order: "a|b, c，d" gives        *)
(* a, b, c, d, and no part is empty, has a delimiter in it or begins or     *)
(* ends with whitespace.                                                    *)
C19_SplitFillAnswer ==
    (fnName = "split_fill_answer" /\ fnOut # <<>>) =>
        LET out == fnOut[1]
        IN /\ Len(out) = Cardinality(PartCuts(fnIn))
           /\ \A d \in PartCuts(fnIn) :
                  out[Cardinality({e \in PartCuts(fnIn) : e <= d})] = PieceAfter(fnIn, d)
           /\ \A k \in 1..Len(out) :
                  /\ out[k] # <<>>
                  /\ out[k] = PyStrip(out[k])
                  /\ \A i \in 1..Len(out[k]) : out[k][i] \notin FillDelims
           /\ fnIn = AnswerExample => out = << <<"a">>, <<"b">>, <<"c">>, <<"d">> >>

C19_Witness ==
    /\ fnName = "split_fill_answer"
    /\ fnIn = AnswerExample
    /\ fnOut = << << <<"a">>, <<"b">>, <<"c">>, <<"d">> >> >>

(* C20: when fill_blanks returns, every blank input holds the part of its   *)
(* position, or nothing when the answer has no part for it, whatever it     *)
(* held before; parts beyond the last blank are not used; and the save      *)
(* control was sought after the blanks, and clicked when enabled.           *)
C20_FillBlanks ==
    (fnName = "fill_blanks" /\ fnOut # <<>> /\ ~fnOut[1].raised) =>
        LET out == fnOut[1]
            parts == split_fill_answer(fnIn.answer)
        IN /\ Len(out.values) = Len(fnIn.inputs)
           /\ \A i \in 1..Len(fnIn.inputs) :
                  out.values[i] = IF i <= Len(parts) THEN parts[i] ELSE <<>>
           /\ out.saveSought
           /\ out.saveClicked <=> fnIn.save = "enabled"

C20_Witness ==
    /\ fnName = "fill_blanks"
    /\ Len(fnIn.inputs) = 2
    /\ \A i \in 1..2 : fnIn.inputs[i] = [value |-> <<"o">>, ok |-> TRUE]
    /\ fnIn.answer = <<"a", " ", "a">>
    /\ fnIn.save = "enabled"
    /\ fnOut # <<>>
    /\ fnOut[1].values = << <<"a", " ", "a">>, <<>> >>
    /\ fnOut[1].saveClicked

(* The first Latin letter of the uppercased text, None when it has none. *)
FirstLatin(s) ==
    LET up == Upper(s)
        at == {i \in 1..Len(up) : IsUpperLetter(up[i])}
    IN IF at = {} THEN None
       ELSE up[CHOOSE i \in at : \A j \in at : i <= j]

(* The letters of the options that carry one. *)
OptionLetters(options) == {options[i].key : i \in 1..Len(options)} \ {""}

(* C21: on a choice question whose options carry letters, when the first   *)
(* Latin letter of the uppercased answer is one of the option letters, the *)
(* input of exactly that option is clicked when the page has it, no other  *)
(* input is clicked, and the loop goes on to navigation.                   *)
C21_ChoiceClicksNamedOption ==
    (fnName = "answer_choice" /\ fnOut # <<>>) =>
        \A first \in {FirstLatin(fnIn.answer)} :
            (fnOut[1].branch = "CHOICE" /\ first \in OptionLetters(fnIn.options)) =>
                /\ fnOut[1].letter = first
                /\ first \in fnIn.inputs => fnOut[1].clicked = <<first>>
                /\ first \notin fnIn.inputs => fnOut[1].clicked = <<>>
                /\ fnOut[1].next = "next_click"

(* C21: "答案是B" on the options A, B and C has clicked B. *)
C21_Witness ==
    /\ fnName = "answer_choice"
    /\ fnIn = ChoiceExample
    /\ fnOut # <<>>
    /\ fnOut[1].clicked = <<"B">>
    /\ fnOut[1].next = "next_click"

(* C27: for every answer that contains one of the valid letters,           *)
(* normalize_letter_answer returns one of the valid letters, never None.   *)
C27_NormalizeFindsValidLetter ==
    (/\ fnName = "normalize_letter_answer"
     /\ fnOut # <<>>
     /\ \E i \in 1..Len(fnIn.ans) : InList(fnIn.ans[i], fnIn.valid_letters)) =>
        /\ fnOut[1] # None
        /\ InList(fnOut[1], fnIn.valid_letters)

(* C28: the letter given to click_single_choice is one of the letters of   *)
(* the options whenever an option has a letter: the first Latin letter of  *)
(* the answer when that is one of them, the letter of the first lettered   *)
(* option otherwise. When no option has a letter it is the first Latin     *)
(* letter of the uppercased answer, or "A" when the answer has none.       *)
C28_ClickedLetterIsOptionLetter ==
    (fnName = "answer_choice" /\ fnOut # <<>>) =>
        \A first \in {FirstLatin(fnIn.answer)} :
        \A letters \in {OptionLetters(fnIn.options)} :
            /\ letters # {} =>
                /\ fnOut[1].letter \in letters
                /\ first \notin letters =>
                     \E i \in 1..Len(fnIn.options) :
                        /\ fnIn.options[i].key = fnOut[1].letter
                        /\ \A j \in 1..(i - 1) : fnIn.options[j].key = ""
            /\ letters = {} =>
                fnOut[1].letter = (IF first = None THEN "A" ELSE first)

(* C28: an answer whose first Latin letter is no option letter has fallen  *)
(* back to the first lettered option, which is not the first option.       *)
C28_Witness ==
    /\ fnName = "answer_choice"
    /\ fnOut # <<>>
    /\ fnIn.options = <<[key |-> ""], [key |-> "B"]>>
    /\ fnIn.answer = <<"x", "B">>
    /\ fnOut[1].norm = None
    /\ fnOut[1].letter = "B"

(* The recognition result of the i-th image of the element: the stripped   *)
(* text of the recogniser, empty when recognition is off or failed.        *)
RecognitionResult(el, i) ==
    IF el.ocr /\ el.outcomes[i].kind = "latex" THEN PyStrip(el.outcomes[i].latex)
    ELSE <<>>

(* The text of the element with its tags left out, a line break for each   *)
(* br, and in the place of the image number n + 1 the formula marker of    *)
(* its recognition result, or the placeholder when the result is empty; n  *)
(* images come before items[from].                                         *)
RECURSIVE TextWithMarkers(_, _, _)
TextWithMarkers(el, from, n) ==
    IF from > Len(el.html) THEN <<>>
    ELSE LET x == el.html[from]
         IN IF x = IMG
            THEN (IF RecognitionResult(el, n + 1) # <<>>
                  THEN <<" ", F_OPEN>> \o RecognitionResult(el, n + 1) \o <<F_CLOSE, " ">>
                  ELSE <<" ", PLACEHOLDER, " ">>)
                 \o TextWithMarkers(el, from + 1, n + 1)
            ELSE (IF x = BR THEN <<NL>> ELSE IF x = "<p>" THEN <<>> ELSE <<x>>)
                 \o TextWithMarkers(el, from + 1, n)

(* The markers of a rendered text, by their first piece. *)
MarkerStarts(text) == SelectSeq(text, LAMBDA x : x \in {F_OPEN, PLACEHOLDER})

(* C22: for an element with N images the rendered text has exactly N       *)
(* markers, the i-th in the place of the i-th image and carrying its       *)
(* recognition result (the placeholder when that is empty), whatever the   *)
(* outcome of each recognition.                                            *)
C22_OneMarkerPerImage ==
    (fnName = "render_element_text_with_inline_latex" /\ fnOut # <<>>) =>
        /\ Len(MarkerStarts(fnOut[1].text)) = ImgCount(fnIn.html)
        /\ fnOut[1].text = clean_whitespace(TextWithMarkers(fnIn, 1, 0))

(* C23: a recognition that fails on an image (an exception, or empty       *)
(* screenshot bytes) does not leave the function: that image gets the      *)
(* empty text and is rendered as the placeholder, and the other images     *)
(* are still recognised.                                                   *)
C23_RecognitionFailureContained ==
    (fnName = "render_element_text_with_inline_latex" /\ fnOut # <<>> /\ fnIn.ocr) =>
        \A i \in 1..Len(fnIn.outcomes) :
            fnIn.outcomes[i].kind \in {"raise", "nobytes"} =>
                /\ ~fnOut[1].raised
                /\ fnOut[1].formulas[i] = <<>>
                /\ \A j \in 1..Len(fnIn.outcomes) :
                      fnOut[1].formulas[j] = RecognitionResult(fnIn, j)
                /\ Len(MarkerStarts(fnOut[1].text)) = ImgCount(fnIn.html)
                /\ MarkerStarts(fnOut[1].text)[i] = PLACEHOLDER

(* collect_current_question is between its DOM queries. *)
Capturing == pc \in {"collect_item", "collect_face", "collect_labels"}

(* C24: every snapshot returned by collect_current_question has its id and *)
(* type tag, its text and its options from one on-screen question          *)
(* instance, whatever the page does between the queries of the capture,    *)
(* and a snapshot is not changed after the capture (the loop only binds q  *)
(* anew at the top of its next iteration).                                 *)
C24_SnapshotOfOneInstance ==
    /\ []((~Capturing /\ pc # "failed" /\ q # NoSnapshot) =>
             (q.faceEl = q.el /\ q.labelsEl = q.el))
    /\ [][(~Capturing /\ pc # "capture_el") => q' = q]_vars

(* C26: in quiz_solver.py a question whose tag contains none of SINGLE,    *)
(* JUDGE and FILL is answered as a code question: the code branch is       *)
(* entered and nothing is skipped, and unless an operation of the branch   *)
(* raises, the backend is asked, then set_editor_content is called, then   *)
(* try_click_save, before the loop goes on to navigation.                  *)
C26_SolverDefaultsToCode ==
    (/\ variant = "solver"
     /\ Invoked("classify")
     /\ \A t \in {T_SINGLE, T_JUDGE, T_FILL} : ~Contains(q.qtype, t)) =>
            /\ "skip" \notin log
            /\ Branch(variant, q.qtype) = "CODE"
            /\ pc # "code_prompt" => Invoked("get_question_text_for_code")
            /\ \A i \in 1..Len(calls) : calls[i] \notin {"click_single_choice", "fill_blanks"}
            /\ (pc \in AdvancePcs /\ "exception" \notin log) =>
                  /\ InvokedBefore("ask", "set_editor_content")
                  /\ InvokedBefore("set_editor_content", "try_click_save")

(* C26: quiz_solver.py has asked, injected and saved for a tag that no     *)
(* rule of main.py matches.                                                *)
C26_Witness ==
    /\ variant = "solver"
    /\ q.qtype = ESSAY_FREEFORM
    /\ pc = "ret"
    /\ "exception" \notin log
    /\ InvokedBefore("ask", "set_editor_content")
    /\ InvokedBefore("set_editor_content", "try_click_save")
    /\ InvokedBefore("try_click_save", "go_next_question")

(* The non-empty texts of a list, in order, with sep between them. *)
RECURSIVE SectionBody(_, _, _)
SectionBody(texts, sep, started) ==
    IF texts = <<>> THEN <<>>
    ELSE IF Head(texts) = <<>> THEN SectionBody(Tail(texts), sep, started)
    ELSE (IF started THEN sep ELSE <<>>) \o Head(texts)
         \o SectionBody(Tail(texts), sep, TRUE)

ClickCount(ops) == Len(SelectSeq(ops, LAMBDA o : o = "click"))

(* C30: the save step clicks the save control at most once and only when   *)
(* it is present and enabled, and a page without save control is normal:   *)
(* the step then raises nothing and sends the page no click, in            *)
(* try_click_save and in the save step at the end of fill_blanks.          *)
C30_SaveOptional ==
    /\ (fnName = "try_click_save" /\ fnOut # <<>>) =>
          /\ ClickCount(fnOut[1].ops) <= 1
          /\ ClickCount(fnOut[1].ops) = 1 => fnIn \in {"enabled", "hidden"}
          /\ fnOut[1].clicked => fnIn = "enabled"
          /\ ~fnOut[1].raised
          /\ fnIn = "absent" => ClickCount(fnOut[1].ops) = 0
    /\ (fnName = "fill_blanks" /\ fnOut # <<>> /\ fnOut[1].saveSought) =>
          /\ ClickCount(fnOut[1].saveOps) <= 1
          /\ ClickCount(fnOut[1].saveOps) = 1 => fnIn.save \in {"enabled", "hidden"}
          /\ fnOut[1].saveClicked => fnIn.save = "enabled"
          /\ fnIn.save = "absent" =>
                /\ ~fnOut[1].raised
                /\ ClickCount(fnOut[1].saveOps) = 0

(* C30: fill_blanks has filled a blank on a page without save control and  *)
(* returned.                                                               *)
C30_Witness ==
    /\ fnName = "fill_blanks"
    /\ fnOut # <<>>
    /\ fnIn.save = "absent"
    /\ fnIn.inputs = <<[value |-> <<"o">>, ok |-> TRUE]>>
    /\ fnOut[1].values = << <<"a">> >>
    /\ fnOut[1].saveOps = <<"find_element">>
    /\ ~fnOut[1].raised

(* C25: with a required field of the configuration missing or empty, or    *)
(* with an empty link, main exits with a diagnostic before a browser       *)
(* session exists, and no login, capture or navigation is executed; run    *)
(* completes normally only on the terminal signal.                         *)
C25_FatalConfigBeforeBrowser ==
    /\ (\E k \in {"username", "password", "deepseek_api_key"} :
            boot.cfg[k] \in {"missing", ""}) =>
          /\ pc \in {"load_config", "check_config", "exited"}
          /\ pc = "exited" => boot.diag = "config"
          /\ boot.session = "none"
          /\ ~boot.loggedIn
          /\ calls = <<>> /\ capLog = <<>> /\ advances = 0
    /\ (boot.url.read /\ boot.url.text = <<>>) =>
          /\ pc = "exited"
          /\ boot.diag = "url"
          /\ boot.session = "none"
          /\ ~boot.loggedIn
          /\ calls = <<>> /\ capLog = <<>> /\ advances = 0
    /\ pc = "exited" => boot.diag # "none" /\ boot.session = "none"
    /\ pc = "done" => is_last

(* C25: main.py has exited on a configuration without API key. *)
C25_Witness ==
    /\ variant = "main"
    /\ boot.cfg = [username |-> "x", password |-> "x", deepseek_api_key |-> "missing"]
    /\ pc = "exited"
    /\ boot.diag = "config"
    /\ boot.session = "none"

(* C31: in quiz_solver_code.main, when no handle of the old question       *)
(* element was obtained (old_face_el is None), go_next_and_check_last      *)
(* still clicks next, handles the dialog and returns its flag: it does     *)
(* not raise.                                                              *)
C31_NoneHandleStillAdvances ==
    (variant = "code" /\ q_el = 0 /\ clicks = 1) =>
        /\ pc \in {"alert_wait", "stale_wait", "ret", "done", "capture_el"}
        /\ excSite # "go_next_question"

(* C32: for a CODE question a timeout of ensure_editor_present is not      *)
(* fatal: the run goes on to the backend request, and set_editor_content   *)
(* is attempted after it wherever the request's own outcome lets the       *)
(* answering path go on (in quiz_solver_code.main always).                 *)
C32_EditorTimeoutNotFatal ==
    "no_editor" \in log =>
        /\ excSite # "ensure_editor_present"
        /\ pc = "ask" \/ Invoked("ask")
        /\ (/\ Invoked("ask")
            /\ pc # "set_editor"
            /\ variant = "code" \/ AskResult(variant, upstream) # "raise")
           => InvokedBefore("ask", "set_editor_content")

C32_Witness ==
    /\ "no_editor" \in log
    /\ variant = "main"
    /\ InvokedBefore("ensure_editor_present", "ask")
    /\ InvokedBefore("ask", "set_editor_content")
    /\ pc = "save"

(* C33: in every iteration of run the element handle given to              *)
(* go_next_question for the staleness wait (first query of the question    *)
(* container) is the same question instance as the one the answered        *)
(* snapshot was read from (second query, inside collect_current_question), *)
(* for every interleaving with the page's re-rendering.                    *)
C33_HandleIsAnsweredInstance ==
    (/\ variant \in RunVariants
     /\ pc \in {"next_click", "alert_wait", "stale_wait"}
     /\ q.el # 0)
        => q_el = q.el

(* The operations that put an answer on the page. *)
Injections == {"click_single_choice", "fill_blanks", "set_editor_content"}

(* The iteration has left its try block and is advancing. *)
Advancing == pc \in {"next_click", "alert_wait", "stale_wait", "ret"}

(* Per iteration: the backend at most once, one kind of injection at most  *)
(* once and only after the backend call, never for UNKNOWN.                *)
AtMostOnce ==
    /\ \A i \in 1..Len(calls) :
           /\ calls[i] = "ask" => \A j \in (i + 1)..Len(calls) : calls[j] # "ask"
           /\ calls[i] \in Injections =>
                  /\ \A j \in (i + 1)..Len(calls) : calls[j] \notin Injections
                  /\ \E k \in 1..(i - 1) : calls[k] = "ask"
    /\ (Invoked("ask") /\ variant \in RunVariants) => CurBranch # "UNKNOWN"

(* C34 as stated: per iteration of run the backend is called at most once, *)
(* exactly once for CHOICE, FILL and CODE questions and never for UNKNOWN, *)
(* and at most one kind of injection is invoked, at most once, without     *)
(* any retry.                                                              *)
C34_ExactlyOnceForCode ==
    /\ AtMostOnce
    /\ (variant \in RunVariants /\ Advancing /\ Invoked("classify")
        /\ CurBranch \in {"CHOICE", "FILL", "CODE"})
           => Invoked("ask")

(* C34, amended: as above, but a CODE question whose preparation           *)
(* (get_question_text_for_code, ensure_editor_present) raises is left      *)
(* without any backend call and without any injection.                     *)
C34_OneCallOneInjection ==
    /\ AtMostOnce
    /\ (Advancing /\ variant \in RunVariants /\ Invoked("classify")
        /\ ~Invoked("ask"))
           => \/ CurBranch = "UNKNOWN"
              \/ /\ CurBranch = "CODE"
                 /\ "exception" \in log
                 /\ LastCall \in {"get_question_text_for_code", "ensure_editor_present",
                                  "go_next_question"}
                 /\ \A op \in Injections : ~Invoked(op)

C34_Witness ==
    /\ variant = "main"
    /\ pc = "next_click"
    /\ CurBranch = "CHOICE"
    /\ InvokedBefore("ask", "click_single_choice")
    /\ "exception" \in log
    /\ LastCall = "click_single_choice"

(* C35: once the browser session exists, driver.quit() is invoked exactly  *)
(* once on every way out of the run (the terminal signal, a fatal          *)
(* navigation or capture error, a login failure), never before, and an     *)
(* exception of quit itself is swallowed: no diagnostic, main returns.     *)
(* The second conjunct is the liveness part: main never stays in a state   *)
(* where the run is over and the session is still open, and by the first   *)
(* conjunct the session stops being open only by the one quit.             *)
C35_QuitExactlyOnce ==
    /\ [](/\ boot.quits <= 1
          /\ boot.quits = 1 <=> boot.session \in {"quit", "lost"}
          /\ boot.quits = 1 => pc \in {"done", "failed"} /\ boot.diag = "none"
          /\ pc \notin {"done", "failed"} => boot.quits = 0)
    /\ []<>~(pc \in {"done", "failed"} /\ boot.session = "open")

C35_Witness ==
    /\ pc = "failed"
    /\ excSite = "login"
    /\ boot.quits = 1
    /\ boot.session = "lost"
    /\ boot.diag = "none"

(* The characters of s that are not whitespace, in order. *)
Visible(s) == SelectSeq(s, LAMBDA c : c \notin WhiteSpace)

(* The runs of whitespace of s that have a visible character on both sides. *)
InnerRuns(s) ==
    {i \in 2..Len(s) : /\ s[i] \in WhiteSpace
                       /\ s[i - 1] \notin WhiteSpace
                       /\ \E j \in (i + 1)..Len(s) : s[j] \notin WhiteSpace}

(* C36: clean_whitespace maps any text to a text without leading or        *)
(* trailing whitespace in which every run of whitespace of the input is    *)
(* one space (the other characters are kept), and normalizing a normalized *)
(* text returns it unchanged.                                              *)
C36_CleanWhitespace ==
    (fnName = "clean_whitespace" /\ fnOut # <<>>) =>
        LET out == fnOut[1] IN
        /\ out # <<>> => out[1] \notin WhiteSpace /\ out[Len(out)] \notin WhiteSpace
        /\ \A i \in 1..Len(out) :
               out[i] \in WhiteSpace =>
                   out[i] = " " /\ out[i + 1] \notin WhiteSpace
        /\ Visible(out) = Visible(fnIn)
        /\ Cardinality(InnerRuns(out)) = Cardinality(InnerRuns(fnIn))
        /\ clean_whitespace(out) = out

C36_Witness ==
    /\ fnName = "clean_whitespace"
    /\ fnIn = <<" ", "a", NL, " ", "a">>
    /\ fnOut = << <<"a", " ", "a">> >>

====
